---- MODULE Spec2Model ----
(***************************************************************************)
(* A model of sgqlc.codegen (src/sgqlc/codegen/__init__.py): the run of    *)
(* main() from argument parsing to the closing of the output file, with    *)
(* CodeGen.write_types unrolled one loop iteration per step.               *)
(*                                                                         *)
(* JSON values are records tagged by j ("null", "string", "number",        *)
(* "array", "object"); an object keeps the order of its members.  The     *)
(* type, field and argument objects of an introspection document are       *)
(* plain records with the members the code reads.  The text handed to the  *)
(* writer is a sequence of events, one per call of self.writer, each       *)
(* holding the values substituted into the template of that call.          *)
(***************************************************************************)
EXTENDS Integers, Sequences, FiniteSets, TLC

\* ------------------------------------------------------------------ bounds
MaxTypes == 4     \* user types of a drawn schema, beside the core types
MaxLinks == 3     \* (implementor, interface) pairs of a drawn schema
MaxSort == 4      \* length of a short list drawn for the phase-3 sort alone
MaxStretch == 5   \* a long list drawn for the sort has 64 + 13 * k types, k <= MaxStretch
MaxSeed == 5      \* the link patterns of the long lists are numbered 0..MaxSeed
MaxDepth == 2     \* NON_NULL / LIST wrappers around a drawn type reference

\* ------------------------------------------------------------- JSON values
JNull == [j |-> "null"]
JStr(s) == [j |-> "string", s |-> s]
JNum(n) == [j |-> "number", n |-> n]
JArr(a) == [j |-> "array", a |-> a]

\* Python truthiness of a JSON value (bool(v)).
Truthy(v) ==
    CASE v.j = "null" -> FALSE
      [] v.j = "string" -> v.s # ""
      [] v.j = "number" -> v.n # 0
      [] v.j = "array" -> v.a # <<>>
      [] v.j = "object" -> DOMAIN v.m # {}

\* dict.get(key, default) on a JSON object.
DictGet(d, key, default) == IF key \in DOMAIN d.m THEN d.m[key] ELSE default

\* What a call yields: the value it returns, or the exception it raises.
Return(v) == [raised |-> "", value |-> v]

Raise(e) == [raised |-> e, value |-> JNull]

\* ------------------------------------------------------------ str methods
\* s.startswith(prefix), s.endswith(suffix), s[1:]
startswith(s, prefix) ==
    Len(s) >= Len(prefix) /\ SubSeq(s, 1, Len(prefix)) = prefix

endswith(s, suffix) ==
    Len(s) >= Len(suffix) /\ SubSeq(s, Len(s) - Len(suffix) + 1, Len(s)) = suffix

after_first(s) == SubSeq(s, 2, Len(s))

ascii_uppercase == "ABCDEFGHIJKLMNOPQRSTUVWXYZ"
ascii_lowercase == "abcdefghijklmnopqrstuvwxyz"

CharAt(s, i) == SubSeq(s, i, i)

\* the character at i, "" past the end
At(s, i) == IF i <= Len(s) THEN CharAt(s, i) ELSE ""

isupper(c) == \E i \in 1..Len(ascii_uppercase) : CharAt(ascii_uppercase, i) = c

lower(c) ==
    IF isupper(c)
    THEN CharAt(ascii_lowercase,
                CHOOSE i \in 1..Len(ascii_uppercase) : CharAt(ascii_uppercase, i) = c)
    ELSE c

\* sgqlc.types.BaseItem._to_python_name, which the generator imports: the
\* words of a camel-case name ('[^A-Z]+|[A-Z]+[^A-Z]*') in lower case,
\* joined by '_' (aName becomes a_name).  A word begins at each upper-case
\* letter that follows a letter not in upper case.
RECURSIVE lower_words(_, _, _)
lower_words(s, lo, hi) ==
    IF lo > hi THEN ""
    ELSE IF lo = hi
    THEN (IF lo > 1 /\ isupper(CharAt(s, lo)) /\ ~isupper(CharAt(s, lo - 1))
          THEN "_" ELSE "")
         \o lower(CharAt(s, lo))
    ELSE lower_words(s, lo, (lo + hi) \div 2)
         \o lower_words(s, ((lo + hi) \div 2) + 1, hi)

to_python_name(graphql_name) == lower_words(graphql_name, 1, Len(graphql_name))

\* The ASCII characters in the order of their code points, from 1 on: the
\* control characters, the printable ones up to the grave accent (code
\* point 96, left out) and those after it, with DEL.
control == "\t\n\f\r"

before_grave ==
    control \o " !\"#$%&'()*+,-./0123456789:;<=>?@" \o ascii_uppercase \o "[\\]^_"

after_grave == ascii_lowercase \o "{|}~"

code_points ==
    [c \in {CharAt(before_grave, i) : i \in 1..Len(before_grave)} |->
        CHOOSE i \in 1..Len(before_grave) : CharAt(before_grave, i) = c]
    @@ [c \in {CharAt(after_grave, i) : i \in 1..Len(after_grave)} |->
        Len(before_grave) + 1
        + CHOOSE i \in 1..Len(after_grave) : CharAt(after_grave, i) = c]

ord(c) == code_points[c]

hex_digits == "0123456789abcdef"

\* the first position from lo to hi where a and b differ, or 0
RECURSIVE first_diff(_, _, _, _)
first_diff(a, b, lo, hi) ==
    IF lo > hi THEN 0
    ELSE IF lo = hi THEN (IF CharAt(a, lo) = CharAt(b, lo) THEN 0 ELSE lo)
    ELSE LET mid == (lo + hi) \div 2
             or_after(first) == IF first # 0 THEN first
                                ELSE first_diff(a, b, mid + 1, hi)
         IN  or_after(first_diff(a, b, lo, mid))

\* a < b on str: by the first character that differs, a proper prefix first
StrLt(a, b) ==
    LET at(i) == IF i = 0 THEN Len(a) < Len(b)
                 ELSE ord(CharAt(a, i)) < ord(CharAt(b, i))
    IN  at(first_diff(a, b, 1, IF Len(a) < Len(b) THEN Len(a) ELSE Len(b)))

\* The names of S as a list, ascending or descending by name.
RECURSIVE NameList(_, _)
NameList(S, ascending) ==
    IF S = {} THEN <<>>
    ELSE LET x == CHOOSE n \in S : \A m \in S : m = n \/
                      (IF ascending THEN StrLt(n, m) ELSE StrLt(m, n))
         IN  <<x>> \o NameList(S \ {x}, ascending)

\* A JSON object: keys holds the names of its members in the order of the
\* document, which is the order a dict keeps; m holds their values.
JDict(keys, m) == [j |-> "object", keys |-> keys, m |-> m]

\* The JSON object that holds the members of m in ascending name order.
JObj(m) == JDict(NameList(DOMAIN m, TRUE), m)

\* c in chars, on a str of characters
IsIn(c, chars) == \E i \in 1..Len(chars) : CharAt(chars, i) = c

\* repr() of a str: in double quotes when it holds a single quote and no
\* double quote, in single quotes otherwise, with the quote, the backslash,
\* the newline, the carriage return and the tab escaped, and the other
\* characters that are not printable written \xNN.
repr_char(c, quote) ==
    CASE c = "\\" -> "\\\\"
      [] c = "\n" -> "\\n"
      [] c = "\r" -> "\\r"
      [] c = "\t" -> "\\t"
      [] c = quote -> "\\" \o quote
      [] IsIn(c, control \o At(after_grave, Len(after_grave))) ->
           "\\x" \o CharAt(hex_digits, (ord(c) \div 16) + 1)
                  \o CharAt(hex_digits, (ord(c) % 16) + 1)
      [] OTHER -> c

RECURSIVE repr_chars(_, _, _, _)
repr_chars(s, lo, hi, quote) ==
    IF lo > hi THEN ""
    ELSE IF lo = hi THEN repr_char(CharAt(s, lo), quote)
    ELSE repr_chars(s, lo, (lo + hi) \div 2, quote)
         \o repr_chars(s, ((lo + hi) \div 2) + 1, hi, quote)

repr(s) ==
    LET quote == IF IsIn("'", s) /\ ~IsIn("\"", s) THEN "\"" ELSE "'"
    IN  quote \o repr_chars(s, 1, Len(s), quote) \o quote

\* ------------------------------------------------- the values of Python
\* The values JSONOutputVisitor builds: None, bool, int, float, str, list
\* and dict (its items in insertion order).  An int keeps its digits; a
\* float is the double that repr() writes as 0.digits * 10^point, with
\* digits free of leading and trailing zeros (digits "" for zero, "inf"
\* for infinity).
PyNone == [py |-> "None"]
PyBool(b) == [py |-> "bool", b |-> b]
PyInt(negative, digits) == [py |-> "int", negative |-> negative, digits |-> digits]
PyFloat(negative, digits, point) ==
    [py |-> "float", negative |-> negative, digits |-> digits, point |-> point]
PyStr(s) == [py |-> "str", s |-> s]
PyList(items) == [py |-> "list", items |-> items]
PyDict(items) == [py |-> "dict", items |-> items]
\* an object of a Node class of graphql.language.ast
PyNode(node) == [py |-> "node", node |-> node]

digits == "0123456789"

DigitValue(c) == (CHOOSE k \in 1..Len(digits) : CharAt(digits, k) = c) - 1

\* int(text) of a str of at most nine digits
RECURSIVE to_nat(_, _, _)
to_nat(text, i, acc) ==
    IF i > Len(text) THEN acc
    ELSE to_nat(text, i + 1, 10 * acc + DigitValue(CharAt(text, i)))

\* str(n) of a natural number
RECURSIVE nat_str(_)
nat_str(n) ==
    IF n < 10 THEN CharAt(digits, n + 1)
    ELSE nat_str(n \div 10) \o CharAt(digits, (n % 10) + 1)

\* '0' * n
RECURSIVE zeros(_)
zeros(n) ==
    IF n <= 0 THEN ""
    ELSE IF n = 1 THEN "0"
    ELSE zeros(n \div 2) \o zeros(n - (n \div 2))

\* the first and the last position from lo to hi whose character is not in
\* chars, or 0
RECURSIVE first_outside(_, _, _, _), last_outside(_, _, _, _)
first_outside(s, lo, hi, chars) ==
    IF lo > hi THEN 0
    ELSE IF lo = hi THEN (IF IsIn(CharAt(s, lo), chars) THEN 0 ELSE lo)
    ELSE LET mid == (lo + hi) \div 2
             or_after(first) == IF first # 0 THEN first
                                ELSE first_outside(s, mid + 1, hi, chars)
         IN  or_after(first_outside(s, lo, mid, chars))

last_outside(s, lo, hi, chars) ==
    IF lo > hi THEN 0
    ELSE IF lo = hi THEN (IF IsIn(CharAt(s, lo), chars) THEN 0 ELSE lo)
    ELSE LET mid == (lo + hi) \div 2
             or_before(last) == IF last # 0 THEN last
                                ELSE last_outside(s, lo, mid, chars)
         IN  or_before(last_outside(s, mid + 1, hi, chars))

\* the first position from i on whose character is not in chars
span(s, i, chars) ==
    LET or_end(first) == IF first # 0 THEN first ELSE Len(s) + 1
    IN  or_end(first_outside(s, i, Len(s), chars))

\* s.lstrip('0'), s.rstrip('0')
lstrip_zeros(s) == SubSeq(s, span(s, 1, "0"), Len(s))

rstrip_zeros(s) == SubSeq(s, 1, last_outside(s, 1, Len(s), "0"))

\* ------------------------------------------- the arithmetic behind float()
\* A natural number of any size is the sequence of its digits in base
\* Limb, the lowest first, with no zero at the top (<<>> is zero).
Limb == 10000

\* the highest place from lo to hi where a holds a digit other than 0, or 0
RECURSIVE top_limb(_, _, _)
top_limb(a, lo, hi) ==
    IF lo > hi THEN 0
    ELSE IF lo = hi THEN (IF a[lo] # 0 THEN lo ELSE 0)
    ELSE LET mid == (lo + hi) \div 2
             or_below(top) == IF top # 0 THEN top ELSE top_limb(a, lo, mid)
         IN  or_below(top_limb(a, mid + 1, hi))

\* The digits of the number whose places hold the integers xs[lo..hi],
\* and what is carried out of them.
RECURSIVE carry_range(_, _, _, _)
carry_range(xs, lo, hi, carry) ==
    IF lo = hi
    THEN [limbs |-> <<(xs[lo] + carry) % Limb>>, carry |-> (xs[lo] + carry) \div Limb]
    ELSE LET mid == (lo + hi) \div 2
             both(low, high) == [limbs |-> low.limbs \o high.limbs,
                                 carry |-> high.carry]
             then(low) == both(low, carry_range(xs, mid + 1, hi, low.carry))
         IN  then(carry_range(xs, lo, mid, carry))

carried(xs) ==
    LET top_off(limbs) == SubSeq(limbs, 1, top_limb(limbs, 1, Len(limbs)))
    IN  top_off(carry_range(xs \o <<0, 0>>, 1, Len(xs) + 2, 0).limbs)

limb_at(a, i) == IF 1 <= i /\ i <= Len(a) THEN a[i] ELSE 0

big_add(a, b) ==
    carried([i \in 1..(IF Len(a) > Len(b) THEN Len(a) ELSE Len(b)) |->
               limb_at(a, i) + limb_at(b, i)])

\* a - b, for a >= b
big_sub(a, b) == carried([i \in 1..Len(a) |-> a[i] - limb_at(b, i)])

\* a * k, for k up to 200000
big_mul_small(a, k) == carried([i \in 1..Len(a) |-> a[i] * k])

\* a * b, for b of up to 20 digits
RECURSIVE place_sum(_, _, _, _)
place_sum(a, b, j, i) ==
    IF i > Len(b) THEN 0
    ELSE b[i] * limb_at(a, j - i + 1) + place_sum(a, b, j, i + 1)

big_mul(a, b) ==
    IF a = <<>> \/ b = <<>> THEN <<>>
    ELSE carried([j \in 1..(Len(a) + Len(b) - 1) |-> place_sum(a, b, j, 1)])

\* -1, 0 or 1 as a is below, equal to or above b
RECURSIVE cmp_range(_, _, _, _)
cmp_range(a, b, lo, hi) ==
    IF lo > hi THEN 0
    ELSE IF lo = hi
    THEN (IF a[lo] < b[lo] THEN 0 - 1 ELSE IF a[lo] > b[lo] THEN 1 ELSE 0)
    ELSE LET mid == (lo + hi) \div 2
             or_below(top) == IF top # 0 THEN top ELSE cmp_range(a, b, lo, mid)
         IN  or_below(cmp_range(a, b, mid + 1, hi))

big_cmp(a, b) ==
    IF Len(a) < Len(b) THEN 0 - 1
    ELSE IF Len(a) > Len(b) THEN 1
    ELSE cmp_range(a, b, 1, Len(a))

\* a * k^n
RECURSIVE times(_, _, _)
times(a, k, n) ==
    IF a = <<>> \/ n <= 0 THEN a
    ELSE IF n = 1 THEN big_mul_small(a, k)
    ELSE times(times(a, k, n \div 2), k, n - (n \div 2))

RECURSIVE small_pow(_, _)
small_pow(k, n) == IF n = 0 THEN 1 ELSE k * small_pow(k, n - 1)

\* a * 2^n, a * 5^n, a * 10^n
times2(a, n) == times(big_mul_small(a, small_pow(2, n % 13)), small_pow(2, 13), n \div 13)

times5(a, n) == times(big_mul_small(a, small_pow(5, n % 7)), small_pow(5, 7), n \div 7)

times10(a, n) ==
    IF a = <<>> \/ n <= 0 THEN a
    ELSE big_mul_small([i \in 1..(n \div 4) |-> 0] \o a, small_pow(10, n % 4))

\* the number a str of decimal digits writes
big_of(text) ==
    LET n == Len(text)
        from(i) == IF n - 4 * i + 1 < 1 THEN 1 ELSE n - 4 * i + 1
    IN  carried([i \in 1..((n + 3) \div 4) |->
                   to_nat(SubSeq(text, from(i), n - 4 * (i - 1)), 1, 0)])

\* str(a), for a > 0
RECURSIVE str_range(_, _, _)
str_range(a, lo, hi) ==
    IF lo = hi THEN zeros(4 - Len(nat_str(a[lo]))) \o nat_str(a[lo])
    ELSE str_range(a, ((lo + hi) \div 2) + 1, hi) \o str_range(a, lo, (lo + hi) \div 2)

big_str(a) == lstrip_zeros(str_range(a, 1, Len(a)))

\* -1, 0 or 1 as the number a writes in decimal digits is below, equal to
\* or above the one b writes
RECURSIVE dec_cmp_range(_, _, _, _)
dec_cmp_range(a, b, lo, hi) ==
    IF lo > hi THEN 0
    ELSE IF lo = hi
    THEN (IF DigitValue(CharAt(a, lo)) < DigitValue(CharAt(b, lo)) THEN 0 - 1
          ELSE IF CharAt(a, lo) = CharAt(b, lo) THEN 0 ELSE 1)
    ELSE LET mid == (lo + hi) \div 2
             or_after(first) == IF first # 0 THEN first
                                ELSE dec_cmp_range(a, b, mid + 1, hi)
         IN  or_after(dec_cmp_range(a, b, lo, mid))

dec_cmp(a, b) ==
    IF Len(a) < Len(b) THEN 0 - 1
    ELSE IF Len(a) > Len(b) THEN 1
    ELSE dec_cmp_range(a, b, 1, Len(a))

\* str(int(text) + 1), for a str of decimal digits; '1' for ''
RECURSIVE dec_incr(_)
dec_incr(text) ==
    IF text = "" THEN "1"
    ELSE IF CharAt(text, Len(text)) = "9"
    THEN dec_incr(SubSeq(text, 1, Len(text) - 1)) \o "0"
    ELSE SubSeq(text, 1, Len(text) - 1)
         \o CharAt(digits, DigitValue(CharAt(text, Len(text))) + 2)

\* ----------------------------------------------------------------- float()
\* A double is m * 2^e with m below 2^53 and e from -1074 to 971: m is at
\* least 2^52 unless e is -1074.
two_52 == times2(<<1>>, 52)
two_53 == times2(<<1>>, 53)

Zero == [is |-> "zero", m |-> <<>>, e |-> 0]
Inf == [is |-> "inf", m |-> <<>>, e |-> 0]
Finite(m, e) ==
    IF m = <<>> THEN Zero
    ELSE IF m = two_53 THEN (IF e + 1 > 971 THEN Inf ELSE [is |-> "finite", m |-> two_52, e |-> e + 1])
    ELSE IF e > 971 THEN Inf
    ELSE [is |-> "finite", m |-> m, e |-> e]

\* n / d as (n / d) / 2^k * 2^k with the power of two moved into n or d
Scaled(n, d, k) ==
    IF k >= 0 THEN [n |-> n, d |-> times2(d, k), k |-> k]
    ELSE [n |-> times2(n, 0 - k), d |-> d, k |-> k]

\* for n / d * 2^k with n >= d: the same value with n / d below 2
RECURSIVE below_two(_)
below_two(s) ==
    LET against(twice) == IF big_cmp(s.n, twice) >= 0
                          THEN below_two([n |-> s.n, d |-> twice, k |-> s.k + 1])
                          ELSE s
    IN  against(big_mul_small(s.d, 2))

\* n more bits of the quotient q.m with remainder q.r in the division by d
RECURSIVE quotient_bits(_, _, _)
quotient_bits(q, d, n) ==
    IF q.m = <<>> \/ n <= 0 THEN q
    ELSE IF n = 1
    THEN LET bit(r) == IF big_cmp(r, d) >= 0
                       THEN [m |-> big_add(big_mul_small(q.m, 2), <<1>>),
                             r |-> big_sub(r, d)]
                       ELSE [m |-> big_mul_small(q.m, 2), r |-> r]
         IN  bit(big_mul_small(q.r, 2))
    ELSE quotient_bits(quotient_bits(q, d, n \div 2), d, n - (n \div 2))

\* the quotient to the nearest, to the even one of two as near
round_half_even(q, d) ==
    LET up(c) == c > 0 \/ (c = 0 /\ q.m[1] % 2 = 1)
    IN  IF up(big_cmp(big_mul_small(q.r, 2), d)) THEN big_add(q.m, <<1>>) ELSE q.m

\* The double nearest to s.n / s.d * 2^s.k, for s.n / s.d from 1 to 2: its
\* exponent is s.k - 52, or -1074 below the normal range, where fewer bits
\* of the quotient are left.
nearest(s) ==
    LET e == IF s.k - 52 < 0 - 1074 THEN 0 - 1074 ELSE s.k - 52
        bits == s.k - e
    IN  IF bits < 0 - 1 THEN Zero
        ELSE IF bits = 0 - 1
        THEN (IF big_cmp(s.n, s.d) > 0 THEN Finite(<<1>>, e) ELSE Zero)
        ELSE Finite(round_half_even(
                        quotient_bits([m |-> <<1>>, r |-> big_sub(s.n, s.d)], s.d, bits),
                        s.d),
                    e)

\* The double nearest to mantissa * 10^exponent, for a mantissa that
\* begins and ends with a digit other than 0.  With point the place of the
\* decimal point before the mantissa, the value is 10^(point - 1) at least
\* and below 10^point: it is beyond every double for a point above 309,
\* below half the least one for a point below -323, and 2^k at least for
\* k = (point - 1) * 3.3219 - 1.
strtod(mantissa, exponent) ==
    LET point == Len(mantissa) + exponent
        n == times10(big_of(mantissa), exponent)
        d == times10(<<1>>, 0 - exponent)
    IN  IF point > 309 THEN Inf
        ELSE IF point < 0 - 323 THEN Zero
        ELSE nearest(below_two(Scaled(n, d, (((point - 1) * 33219) \div 10000) - 1)))

\* The digits of repr() for the double m * 2^e and the place of the
\* decimal point before them: the shortest decimal that float() takes to
\* the double, the nearest to it of two as short.  The doubles round to it
\* from half the way to the double below, which is half as far above a
\* power of two, to half the way to the double above, the ends included
\* for an even m.  x, low and high are the double and the two ends, in
\* decimal digits, as multiples of the same power of ten; a decimal of n
\* digits is the first n digits of x (down) or the next one (up).
RECURSIVE shortest(_, _, _, _, _)
shortest(x, low, high, ends, n) ==
    LET rest == Len(x) - n
        down == SubSeq(x, 1, n)
        up == dec_incr(down)
        tail == SubSeq(x, n + 1, Len(x))
        within(c) == LET low_c == dec_cmp(low, c \o zeros(rest))
                         c_high == dec_cmp(c \o zeros(rest), high)
                     IN  /\ low_c < 0 \/ (ends /\ low_c = 0)
                         /\ c_high < 0 \/ (ends /\ c_high = 0)
        half == IF rest = 0 THEN 0 - 1 ELSE dec_cmp(tail, "5" \o zeros(rest - 1))
        nearer_down == half < 0 \/ (half = 0 /\ DigitValue(CharAt(down, n)) % 2 = 0)
        chosen(down_in, up_in) ==
            IF down_in /\ (~up_in \/ nearer_down) THEN [found |-> TRUE, c |-> down]
            ELSE IF up_in THEN [found |-> TRUE, c |-> up]
            ELSE [found |-> FALSE, c |-> ""]
        result(c) == IF c.found
                     THEN [digits |-> rstrip_zeros(c.c), point |-> Len(c.c) + rest]
                     ELSE shortest(x, low, high, ends, n + 1)
    IN  result(chosen(n > 0 /\ within(down), within(up)))

repr_digits(m, e) ==
    LET unit == IF e - 2 >= 0 THEN times2(<<1>>, e - 2) ELSE times5(<<1>>, 2 - e)
        shift == IF e - 2 >= 0 THEN 0 ELSE e - 2
        below == IF m = two_52 /\ e > 0 - 1074 THEN 1 ELSE 2
        in_units(u) ==
            LET around(x) ==
                    shortest(big_str(x), big_str(big_sub(x, big_mul_small(u, below))),
                             big_str(big_add(x, big_mul_small(u, 2))), m[1] % 2 = 0, 0)
            IN  around(big_mul(u, big_mul_small(m, 4)))
        placed(r) == [digits |-> r.digits, point |-> r.point + shift]
    IN  placed(in_units(unit))

\* float(text) for the text of a float literal: sign, integer part,
\* fraction and exponent.  An exponent of ten digits or more is as good as
\* 10^9, the digits of a literal being fewer: the value is zero, or
\* outside the range of the doubles.
float_of(text) ==
    LET negative == CharAt(text, 1) = "-"
        first == IF negative THEN 2 ELSE 1
        int_end == span(text, first, digits)
        frac_end == IF At(text, int_end) = "." THEN span(text, int_end + 1, digits)
                    ELSE int_end
        exp_negative == At(text, frac_end + 1) = "-"
        exp_start == IF At(text, frac_end + 1) \in {"+", "-"} THEN frac_end + 2
                     ELSE frac_end + 1
        int_part == SubSeq(text, first, int_end - 1)
        fraction == SubSeq(text, int_end + 1, frac_end - 1)
        exp_digits == lstrip_zeros(SubSeq(text, exp_start, Len(text)))
        exp == IF Len(exp_digits) > 9 THEN small_pow(10, 9) ELSE to_nat(exp_digits, 1, 0)
        all == lstrip_zeros(int_part \o fraction)
        mantissa == rstrip_zeros(all)
        exponent == (IF exp_negative THEN 0 - exp ELSE exp)
                    - Len(fraction) + (Len(all) - Len(mantissa))
        digits_of(x) ==
            IF x.is = "zero" THEN PyFloat(negative, "", 0)
            ELSE IF x.is = "inf" THEN PyFloat(negative, "inf", 0)
            ELSE LET of(r) == PyFloat(negative, r.digits, r.point)
                 IN  of(repr_digits(x.m, x.e))
    IN  IF mantissa = "" THEN PyFloat(negative, "", 0)
        ELSE IF Len(mantissa) + exponent > 309 THEN PyFloat(negative, "inf", 0)
        ELSE IF Len(mantissa) + exponent < 0 - 323 THEN PyFloat(negative, "", 0)
        ELSE digits_of(strtod(mantissa, exponent))

\* repr() of a float: positional notation for a decimal exponent from -4
\* to 15, scientific notation with an exponent of two digits at least
\* otherwise (float_repr_style 'short').
repr_float(v) ==
    LET sign == IF v.negative THEN "-" ELSE ""
        d == v.digits
        p == v.point
        e == p - 1
        abs_e == IF e < 0 THEN 0 - e ELSE e
    IN  IF d = "" THEN sign \o "0.0"
        ELSE IF d = "inf" THEN sign \o "inf"
        ELSE IF e < 0 - 4 \/ e >= 16
        THEN sign \o CharAt(d, 1)
             \o (IF Len(d) > 1 THEN "." \o SubSeq(d, 2, Len(d)) ELSE "")
             \o "e" \o (IF e < 0 THEN "-" ELSE "+")
             \o (IF abs_e < 10 THEN "0" ELSE "") \o nat_str(abs_e)
        ELSE IF p <= 0 THEN sign \o "0." \o zeros(0 - p) \o d
        ELSE IF p >= Len(d) THEN sign \o d \o zeros(p - Len(d)) \o ".0"
        ELSE sign \o SubSeq(d, 1, p) \o "." \o SubSeq(d, p + 1, Len(d))

\* ', '.join(parts)
RECURSIVE join_range(_, _, _)
join_range(parts, lo, hi) ==
    IF lo = hi THEN parts[lo]
    ELSE join_range(parts, lo, (lo + hi) \div 2) \o ", "
         \o join_range(parts, ((lo + hi) \div 2) + 1, hi)

join(parts) == IF Len(parts) = 0 THEN "" ELSE join_range(parts, 1, Len(parts))

\* repr() of a value
RECURSIVE py_repr(_)
py_repr(v) ==
    CASE v.py = "None" -> "None"
      [] v.py = "bool" -> IF v.b THEN "True" ELSE "False"
      [] v.py = "int" ->
           (IF v.negative /\ v.digits # "0" THEN "-" ELSE "") \o v.digits
      [] v.py = "float" -> repr_float(v)
      [] v.py = "str" -> repr(v.s)
      [] v.py = "list" ->
           "[" \o join([i \in 1..Len(v.items) |-> py_repr(v.items[i])]) \o "]"
      [] v.py = "dict" ->
           "{" \o join([i \in 1..Len(v.items) |->
                          repr(v.items[i][1]) \o ": " \o py_repr(v.items[i][2])])
           \o "}"
      [] v.py = "node" ->
           v.node.kind \o "Node at " \o nat_str(v.node.start) \o ":"
               \o nat_str(v.node.end)

\* ------------------------------------------- graphql.language.parse_value
\* The parser of the graphql package the module imports, on the value
\* grammar of GraphQL: ignored characters, Int, Float, String with the
\* escapes of one character, true, false, null, enum names, variables,
\* lists and objects.  Block strings and \u escapes are not covered.  It
\* yields the syntax tree: each node has its kind, what it holds (the text
\* of a number, the characters of a string, the name of an enum value or
\* a variable, the truth value of a boolean, the nodes of a list, the
\* fields of an object) and its location, the offsets of its first
\* character and past its last one.
name_start == "_" \o ascii_uppercase \o ascii_lowercase
name_chars == name_start \o digits

Node(kind, value, start, end) ==
    [kind |-> kind, value |-> value, start |-> start, end |-> end]

\* an ObjectFieldNode: node.name.value and node.value
ObjectField(name, value) == [kind |-> "ObjectField", name |-> name, value |-> value]

Parsed(v, next) == [raised |-> "", value |-> v, next |-> next]
GraphQLSyntaxError == [raised |-> "GraphQLSyntaxError", value |-> PyNone, next |-> 0]

\* the first position from lo to hi whose character is in chars, or 0
RECURSIVE first_inside(_, _, _, _)
first_inside(s, lo, hi, chars) ==
    IF lo > hi THEN 0
    ELSE IF lo = hi THEN (IF IsIn(CharAt(s, lo), chars) THEN lo ELSE 0)
    ELSE LET mid == (lo + hi) \div 2
             or_after(first) == IF first # 0 THEN first
                                ELSE first_inside(s, mid + 1, hi, chars)
         IN  or_after(first_inside(s, lo, mid, chars))

\* the control characters but the tab: none may stand in a comment or in a
\* string
not_in_text == SubSeq(control, 1, 8) \o SubSeq(control, 10, Len(control))

\* a comment runs up to the first of them, the end of the line as a rule
end_of_comment(s, i) ==
    LET or_end(first) == IF first # 0 THEN first ELSE Len(s) + 1
    IN  or_end(first_inside(s, i, Len(s), not_in_text))

\* white space, line ends, commas and comments
RECURSIVE skip_ignored(_, _)
skip_ignored(s, i) ==
    LET at(j) == IF At(s, j) = "#" THEN skip_ignored(s, end_of_comment(s, j)) ELSE j
    IN  at(span(s, i, " ,\t\n\r"))

read_number(s, i) ==
    LET int_start == IF At(s, i) = "-" THEN i + 1 ELSE i
        int_end == IF At(s, int_start) = "0" THEN int_start + 1
                   ELSE span(s, int_start, digits)
        has_frac == At(s, int_end) = "."
        frac_end == IF has_frac THEN span(s, int_end + 1, digits) ELSE int_end
        has_exp == At(s, frac_end) \in {"e", "E"}
        exp_start == IF ~has_exp THEN frac_end
                     ELSE IF At(s, frac_end + 1) \in {"+", "-"} THEN frac_end + 2
                     ELSE frac_end + 1
        end == IF has_exp THEN span(s, exp_start, digits) ELSE frac_end
        text == SubSeq(s, i, end - 1)
    IN  IF \/ int_end = int_start
           \/ IsIn(At(s, int_end), digits)
           \/ has_frac /\ frac_end = int_end + 1
           \/ has_exp /\ end = exp_start
           \/ IsIn(At(s, end), name_start) \/ At(s, end) = "."
        THEN GraphQLSyntaxError
        ELSE Parsed(Node(IF has_frac \/ has_exp THEN "FloatValue" ELSE "IntValue",
                         text, i - 1, end - 1),
                    end)

\* The string that opens at open.  A character of it is escaped when an
\* odd number of backslashes stand before it; the string closes at its
\* first quote that is not.
escaped(s, open, i) == (i - 1 - last_outside(s, open, i - 1, "\\")) % 2 = 1

RECURSIVE closing_quote(_, _, _, _)
closing_quote(s, open, lo, hi) ==
    IF lo > hi THEN 0
    ELSE IF lo = hi
    THEN (IF CharAt(s, lo) = "\"" /\ ~escaped(s, open, lo) THEN lo ELSE 0)
    ELSE LET mid == (lo + hi) \div 2
             or_after(first) == IF first # 0 THEN first
                                ELSE closing_quote(s, open, mid + 1, hi)
         IN  or_after(closing_quote(s, open, lo, mid))

\* what the character at i adds to the value of the string
string_char(s, open, i) ==
    LET c == CharAt(s, i)
        e == CharAt(s, i + 1)
    IN  IF escaped(s, open, i) THEN ""
        ELSE IF c # "\\" THEN c
        ELSE CASE e = "n" -> "\n"
               [] e = "r" -> "\r"
               [] e = "t" -> "\t"
               [] e = "b" -> CharAt(control, 8)
               [] e = "f" -> "\f"
               [] OTHER -> e

RECURSIVE string_chars(_, _, _, _)
string_chars(s, open, lo, hi) ==
    IF lo > hi THEN ""
    ELSE IF lo = hi THEN string_char(s, open, lo)
    ELSE string_chars(s, open, lo, (lo + hi) \div 2)
         \o string_chars(s, open, ((lo + hi) \div 2) + 1, hi)

read_string(s, open) ==
    LET closed(close) ==
            IF \/ close = 0
               \/ first_inside(s, open + 1, close - 1, not_in_text) # 0
               \/ \E i \in (open + 1)..(close - 1) :
                     /\ CharAt(s, i) = "\\"
                     /\ ~escaped(s, open, i)
                     /\ ~IsIn(CharAt(s, i + 1), "\"\\/bfnrt")
            THEN GraphQLSyntaxError
            ELSE Parsed(Node("StringValue", string_chars(s, open, open + 1, close - 1),
                             open - 1, close),
                        close + 1)
    IN  closed(closing_quote(s, open, open + 1, Len(s)))

RECURSIVE parse_value_literal(_, _), parse_list(_, _, _, _), parse_object(_, _, _, _)
parse_value_literal(s, from) ==
    LET i == skip_ignored(s, from)
        c == At(s, i)
        name_end == span(s, i, name_chars)
        name == SubSeq(s, i, name_end - 1)
        var_start == skip_ignored(s, i + 1)
        var_end == span(s, var_start, name_chars)
    IN  CASE c = "[" -> parse_list(s, i, i + 1, <<>>)
          [] c = "{" -> parse_object(s, i, i + 1, <<>>)
          [] c = "\"" ->
               IF At(s, i + 1) = "\"" /\ At(s, i + 2) = "\"" THEN GraphQLSyntaxError
               ELSE read_string(s, i)
          [] c = "-" \/ (c # "" /\ IsIn(c, digits)) -> read_number(s, i)
          [] c = "$" ->
               IF IsIn(At(s, var_start), name_start)
               THEN Parsed(Node("Variable", SubSeq(s, var_start, var_end - 1),
                                i - 1, var_end - 1),
                           var_end)
               ELSE GraphQLSyntaxError
          [] c # "" /\ IsIn(c, name_start) ->
               Parsed(CASE name = "true" -> Node("BooleanValue", TRUE, i - 1, name_end - 1)
                        [] name = "false" -> Node("BooleanValue", FALSE, i - 1, name_end - 1)
                        [] name = "null" -> Node("NullValue", "", i - 1, name_end - 1)
                        [] OTHER -> Node("EnumValue", name, i - 1, name_end - 1),
                      name_end)
          [] OTHER -> GraphQLSyntaxError

parse_list(s, open, from, values) ==
    LET i == skip_ignored(s, from)
        item == parse_value_literal(s, i)
    IN  IF At(s, i) = "]" THEN Parsed(Node("ListValue", values, open - 1, i), i + 1)
        ELSE IF item.raised # "" THEN item
        ELSE parse_list(s, open, item.next, Append(values, item.value))

parse_object(s, open, from, fields) ==
    LET i == skip_ignored(s, from)
        name_end == span(s, i, name_chars)
        colon == skip_ignored(s, name_end)
        item == parse_value_literal(s, colon + 1)
    IN  IF At(s, i) = "}" THEN Parsed(Node("ObjectValue", fields, open - 1, i), i + 1)
        ELSE IF ~IsIn(At(s, i), name_start) \/ At(s, colon) # ":"
        THEN GraphQLSyntaxError
        ELSE IF item.raised # "" THEN item
        ELSE parse_object(s, open, item.next,
                 Append(fields, ObjectField(SubSeq(s, i, name_end - 1), item.value)))

\* parse_value(source): one value, then the end of the source
parse_graphql_value(source) ==
    LET at_end(v) ==
            IF v.raised # "" THEN v
            ELSE IF skip_ignored(source, v.next) <= Len(source) THEN GraphQLSyntaxError
            ELSE v
    IN  at_end(parse_value_literal(source, 1))

\* ------------------------------------------------------ JSONOutputVisitor
\* Each method gets what it reads of the node it leaves: node.value,
\* node.values, node.fields, node.name.value.
leave_IntValue(value) ==
    LET negative == CharAt(value, 1) = "-"
    IN  PyInt(negative, IF negative THEN SubSeq(value, 2, Len(value)) ELSE value)

leave_FloatValue(value) == float_of(value)

leave_StringValue(value) == PyStr(value)

leave_BooleanValue(value) == PyBool(value)

leave_EnumValue(value) == PyStr(value)

leave_ListValue(values) == PyList(values)

leave_ObjectField(name, value) == <<name, value>>

\* dict(node.fields): a name that comes again keeps its place and takes the
\* later value
leave_ObjectValue(fields) ==
    LET first == {i \in 1..Len(fields) :
                    \A k \in 1..(i - 1) : fields[k][1] # fields[i][1]}
        nth(n) == CHOOSE i \in first : Cardinality({k \in first : k < i}) = n - 1
        last(name) == CHOOSE i \in 1..Len(fields) :
                        /\ fields[i][1] = name
                        /\ \A k \in (i + 1)..Len(fields) : fields[k][1] # name
    IN  PyDict([n \in 1..Cardinality(first) |->
                  <<fields[nth(n)][1], fields[last(fields[nth(n)][1])][2]>>])

leave_NullValue == PyNone

\* ------------------------------------------ graphql.language.visitor.visit
\* What the visit of one node comes to: the value its leave method
\* returned, which replaces the node in its parent ("edit"); nothing, for a
\* node that has no method or whose method returned None or False, which
\* stays in its parent ("none"); the end of the whole traversal, for a
\* method that returned True ("break"), or for a node inside which it
\* ended ("ended").  Where the traversal ends, visit() returns the last
\* replacement made so far among the nodes of the same list ("found"), or
\* the root when there is none.
Edit(value) == [result |-> "edit", value |-> value]
NoEdit(node) == [result |-> "none", value |-> PyNode(node)]
BREAK == [result |-> "break"]
Ended(found, value) == [result |-> "ended", found |-> found, value |-> value]

\* what visit() does with the value result that a leave method returned
\* for node
Left(node, result) ==
    IF result.py = "bool" THEN (IF result.b THEN BREAK ELSE NoEdit(node))
    ELSE IF result.py = "None" THEN NoEdit(node)
    ELSE Edit(result)

RECURSIVE visit_node(_), visit_values(_, _, _), visit_fields(_, _)
visit_node(node) ==
    CASE node.kind = "IntValue" -> Left(node, leave_IntValue(node.value))
      [] node.kind = "FloatValue" -> Left(node, leave_FloatValue(node.value))
      [] node.kind = "StringValue" -> Left(node, leave_StringValue(node.value))
      [] node.kind = "BooleanValue" -> Left(node, leave_BooleanValue(node.value))
      [] node.kind = "EnumValue" -> Left(node, leave_EnumValue(node.value))
      [] node.kind = "NullValue" -> Left(node, leave_NullValue)
      [] node.kind = "ListValue" -> visit_values(node.value, <<>>, <<>>)
      [] node.kind = "ObjectValue" -> visit_fields(node.value, <<>>)
      [] OTHER -> NoEdit(node)

\* The nodes of a list in turn: values are the nodes to come, items the
\* list so far and edits the replacements made in it.  A traversal that
\* ends at one of the nodes returns the last of edits.
visit_values(values, items, edits) ==
    IF values = <<>> THEN Edit(leave_ListValue(items))
    ELSE LET then(r) ==
                 IF r.result = "edit"
                 THEN visit_values(Tail(values), Append(items, r.value),
                                   Append(edits, r.value))
                 ELSE IF r.result = "none"
                 THEN visit_values(Tail(values), Append(items, r.value), edits)
                 ELSE IF r.result = "ended" THEN r
                 ELSE IF edits # <<>> THEN Ended(TRUE, edits[Len(edits)])
                 ELSE Ended(FALSE, PyNone)
         IN  then(visit_node(Head(values)))

\* The fields of an object in turn, each replaced by what leave_ObjectField
\* returns for it with its value visited.  A traversal that ends at the
\* value of a field has made no replacement in the field.
visit_fields(fields, items) ==
    IF fields = <<>> THEN Edit(leave_ObjectValue(items))
    ELSE LET then(r) ==
                 IF r.result \in {"edit", "none"}
                 THEN visit_fields(Tail(fields),
                                   Append(items, leave_ObjectField(Head(fields).name,
                                                                   r.value)))
                 ELSE IF r.result = "ended" THEN r
                 ELSE Ended(FALSE, PyNone)
         IN  then(visit_node(Head(fields).value))

\* visit(root, JSONOutputVisitor())
visit(root) ==
    LET new_root(r) == IF r.result = "edit" \/ (r.result = "ended" /\ r.found)
                       THEN r.value
                       ELSE PyNode(root)
    IN  new_root(visit_node(root))

\* ---------------------------------------------------- the class constants
builtin_types == {"Int", "Float", "String", "Boolean", "ID"}
datetime_types == {"DateTime", "Date", "Time"}
relay_types == {"Node", "PageInfo"}
builtin_enum_names == {"__TypeKind", "__DirectiveLocation"}
builtin_object_names ==
    {"__Schema", "__Type", "__Field", "__Directive", "__EnumValue", "__InputValue"}

\* ------------------------------------------------------- depend_cmp, sort
has_iface(ifaces, name) == \E i \in 1..Len(ifaces) : name = ifaces[i].name

\* depend_cmp without its three leading tests on empty interface lists
depend_cmp_by_links_only(a, b) ==
    LET a_ifaces == a.interfaces
        b_ifaces == b.interfaces
    IN  IF Len(a_ifaces) < Len(b_ifaces)
        THEN IF has_iface(a_ifaces, b.name) THEN 1
             ELSE IF has_iface(b_ifaces, a.name) THEN -1
             ELSE 0
        ELSE IF has_iface(b_ifaces, a.name) THEN -1
             ELSE IF has_iface(a_ifaces, b.name) THEN 1
             ELSE 0

depend_cmp(a, b) ==
    LET a_ifaces == a.interfaces
        b_ifaces == b.interfaces
    IN  IF a_ifaces = <<>> /\ b_ifaces # <<>> THEN -1
        ELSE IF a_ifaces # <<>> /\ b_ifaces = <<>> THEN 1
        ELSE IF a_ifaces = <<>> /\ b_ifaces = <<>> THEN 0
        ELSE IF Len(a_ifaces) < Len(b_ifaces)
             THEN IF has_iface(a_ifaces, b.name) THEN 1
                  ELSE IF has_iface(b_ifaces, a.name) THEN -1
                  ELSE 0
             ELSE IF has_iface(b_ifaces, a.name) THEN -1
                  ELSE IF has_iface(a_ifaces, b.name) THEN 1
                  ELSE 0

\* functools.cmp_to_key(depend_cmp): the key object K(t) of a type t
get_depend_sort_key(t) == [j |-> "K", obj |-> t]

\* --------------------------------------------------- < on the sort keys
\* a == b on two JSON values
RECURSIVE PyEq(_, _)
PyEq(a, b) ==
    IF a.j # b.j THEN FALSE
    ELSE CASE a.j = "null" -> TRUE
           [] a.j = "string" -> a.s = b.s
           [] a.j = "number" -> a.n = b.n
           [] a.j = "array" ->
                /\ Len(a.a) = Len(b.a)
                /\ \A i \in 1..Len(a.a) : PyEq(a.a[i], b.a[i])
           [] a.j = "object" ->
                /\ DOMAIN a.m = DOMAIN b.m
                /\ \A k \in DOMAIN a.m : PyEq(a.m[k], b.m[k])

\* a < b on two JSON values: 1 when it holds, 0 when it does not, -1 when
\* it raises TypeError.  str with str and number with number compare; two
\* lists compare by the first items that are not equal, by their lengths
\* when there are none; nothing else has an order.
RECURSIVE PyLt(_, _)
PyLt(a, b) ==
    IF a.j = "string" /\ b.j = "string" THEN (IF StrLt(a.s, b.s) THEN 1 ELSE 0)
    ELSE IF a.j = "number" /\ b.j = "number" THEN (IF a.n < b.n THEN 1 ELSE 0)
    ELSE IF a.j = "array" /\ b.j = "array"
    THEN LET shorter == IF Len(a.a) < Len(b.a) THEN Len(a.a) ELSE Len(b.a)
             differ == {i \in 1..shorter : ~PyEq(a.a[i], b.a[i])}
             first == CHOOSE i \in differ : \A k \in differ : i <= k
         IN  IF differ = {} THEN (IF Len(a.a) < Len(b.a) THEN 1 ELSE 0)
             ELSE PyLt(a.a[first], b.a[first])
    ELSE -1

\* ISLT(x, y) of listobject.c on two elements of a keyed list, each a key
\* and the value that moves with it: K(a) < K(b) is depend_cmp(a, b) < 0.
ISLT(x, y) ==
    IF x.key.j = "K"
    THEN (IF depend_cmp(x.key.obj, y.key.obj) < 0 THEN 1 ELSE 0)
    ELSE PyLt(x.key, y.key)

\* ------------------------------------------------ list.sort of CPython
\* Objects/listobject.c of CPython 3.11: runs found by count_run, short
\* runs extended to minrun by binarysort, runs merged by merge_lo and
\* merge_hi in the order found_new_run (powersort) decides, galloping
\* included.  Positions are 0-based as in the C code; the element at
\* position p of a is a[p + 1].  A comparison that raises ends the sort.
MIN_GALLOP == 7

\* the slice a[lo:hi]
Slice(a, lo, hi) == SubSeq(a, lo + 1, hi)

\* The loop of count_run over the positions lo..hi-1: the first one whose
\* element breaks the run (hi when none does), -1 when a comparison raises.
\* The positions are tried in order, the first half before the second.
RECURSIVE run_end(_, _, _, _)
run_end(a, lo, hi, descending) ==
    IF lo >= hi THEN hi
    ELSE IF hi - lo = 1
    THEN LET go(k) == IF k < 0 THEN -1
                      ELSE IF (k = 1) = descending THEN hi
                      ELSE lo
         IN  go(ISLT(a[lo + 1], a[lo]))
    ELSE LET mid == lo + ((hi - lo) \div 2)
             rest(e) == IF e < mid THEN e ELSE run_end(a, mid, hi, descending)
         IN  rest(run_end(a, lo, mid, descending))

count_run(a, lo, hi) ==
    IF lo + 1 = hi THEN [n |-> 1, descending |-> FALSE]
    ELSE LET first(k) ==
                 LET upto(e) == [n |-> IF e < 0 THEN -1 ELSE e - lo,
                                 descending |-> k = 1]
                 IN  IF k < 0 THEN [n |-> -1, descending |-> FALSE]
                     ELSE upto(run_end(a, lo + 2, hi, k = 1))
         IN  first(ISLT(a[lo + 2], a[lo + 1]))

\* reverse_slice(lo, hi): a with a[lo:hi] reversed
reverse_slice(a, lo, hi) ==
    Slice(a, 0, lo) \o Slice([i \in 1..(hi - lo) |-> a[hi + 1 - i]], 0, hi - lo)
        \o Slice(a, hi, Len(a))

\* The binary search of binarysort for pivot in a[l:r], l < r: the position
\* pivot belongs at, -1 when a comparison raises.
RECURSIVE bisect(_, _, _, _)
bisect(a, pivot, l, r) ==
    LET p == l + ((r - l) \div 2)
        go(k) == IF k < 0 THEN -1
                 ELSE IF k = 1
                 THEN (IF l < p THEN bisect(a, pivot, l, p) ELSE l)
                 ELSE (IF p + 1 < r THEN bisect(a, pivot, p + 1, r) ELSE p + 1)
    IN  go(ISLT(pivot, a[p + 1]))

\* a with the element at position start moved down to position l
slide(a, start, l) ==
    Slice(a, 0, l) \o <<a[start + 1]>> \o Slice(a, l, start)
        \o Slice(a, start + 1, Len(a))

\* The loop of binarysort over the positions start..hi-1, the first half
\* before the second: each element is inserted in a[lo:start], which is
\* sorted.  r is the list so far, or the exception raised.
RECURSIVE insert_each(_, _, _, _)
insert_each(r, lo, start, hi) ==
    IF r.raised # "" \/ start >= hi THEN r
    ELSE IF hi - start = 1
    THEN LET put(l) == IF l < 0 THEN Raise("TypeError")
                       ELSE Return(slide(r.value, start, l))
         IN  put(bisect(r.value, r.value[start + 1], lo, start))
    ELSE LET mid == start + ((hi - start) \div 2)
         IN  insert_each(insert_each(r, lo, start, mid), lo, mid, hi)

\* binarysort(lo, hi, start): yields the list, or raises
binarysort(a, lo, hi, start) ==
    insert_each(Return(a), lo, IF lo = start THEN start + 1 ELSE start, hi)

\* gallop_left (left) and gallop_right (~left) on the n elements of a from
\* position base, starting at hint: the offset key belongs at, before the
\* elements equal to it (left) or after them; -1 when a comparison raises.
gallop(key, a, base, n, hint, left) ==
    LET \* key belongs after the element at offset i
        after(i) == LET x == a[base + i + 1]
                        is(k) == IF left \/ k < 0 THEN k ELSE 1 - k
                    IN  is(ISLT(IF left THEN x ELSE key, IF left THEN key ELSE x))
        \* the offsets 1, 3, 7, ... from hint in direction dir, while key
        \* belongs further that way
        RECURSIVE probe(_, _, _, _)
        probe(dir, maxofs, lastofs, ofs) ==
            IF ofs >= maxofs THEN <<lastofs, maxofs>>
            ELSE LET go(k) == IF k < 0 THEN <<-1, -1>>
                              ELSE IF (k = 1) = (dir = 1)
                              THEN probe(dir, maxofs, ofs, 2 * ofs + 1)
                              ELSE <<lastofs, ofs>>
                 IN  go(after(hint + dir * ofs))
        RECURSIVE search(_, _)
        search(lastofs, ofs) ==
            IF lastofs >= ofs THEN ofs
            ELSE LET m == lastofs + ((ofs - lastofs) \div 2)
                     go(k) == IF k < 0 THEN -1
                              ELSE IF k = 1 THEN search(m + 1, ofs)
                              ELSE search(lastofs, m)
                 IN  go(after(m))
        \* the offsets probe found, to the right of hint or to its left
        between(dir, p) ==
            IF p[1] < 0 THEN -1
            ELSE search(IF dir = 1 THEN p[1] + hint + 1 ELSE hint - p[2] + 1,
                        IF dir = 1 THEN p[2] + hint ELSE hint - p[1])
        towards(dir) ==
            between(dir, probe(dir, IF dir = 1 THEN n - hint ELSE hint + 1, 0, 1))
        from(k) == IF k < 0 THEN -1 ELSE towards(IF k = 1 THEN 1 ELSE -1)
    IN  from(after(hint))

gallop_left(key, a, base, n, hint) == gallop(key, a, base, n, hint, TRUE)

gallop_right(key, a, base, n, hint) == gallop(key, a, base, n, hint, FALSE)

\* What a merge yields: the merged elements and ms->min_gallop, or failed.
Merged(elems, min_gallop) ==
    [at |-> "done", elems |-> elems, min_gallop |-> min_gallop]

MergeFailed == [at |-> "failed", elems |-> <<>>, min_gallop |-> 0]

\* A merge between two elements: at is the loop it is in ("one" at a time
\* or "gallop"), na and nb count the elements of A and B taken (merge_lo)
\* or left (merge_hi), out holds the elements written so far, mg is the
\* local min_gallop and ms_mg is ms->min_gallop.
Merging(at, na, nb, out, acount, bcount, mg, ms_mg) ==
    [at |-> at, na |-> na, nb |-> nb, out |-> out, acount |-> acount,
     bcount |-> bcount, mg |-> mg, ms_mg |-> ms_mg]

\* merge_lo: the run A (copied aside) and the run B after it, na <= nb,
\* merged from the left.
merge_lo(A, B, min_gallop) ==
    LET Succeed(ia, ib, out, ms_mg) ==
            Merged(out \o SubSeq(A, ia + 1, Len(A)) \o SubSeq(B, ib + 1, Len(B)), ms_mg)
        CopyB(ia, ib, out, ms_mg) ==
            Merged(out \o SubSeq(B, ib + 1, Len(B)) \o SubSeq(A, ia + 1, Len(A)), ms_mg)
        \* one round of the first inner loop
        one_at_a_time(ia, ib, out, acount, bcount, mg, ms_mg) ==
            LET go(k) ==
                    IF k < 0 THEN MergeFailed
                    ELSE IF k = 1
                    THEN IF ib + 1 = Len(B)
                         THEN Succeed(ia, ib + 1, Append(out, B[ib + 1]), ms_mg)
                         ELSE IF bcount + 1 >= mg
                         THEN Merging("gallop", ia, ib + 1, Append(out, B[ib + 1]),
                                      0, bcount + 1, mg + 1, ms_mg)
                         ELSE Merging("one", ia, ib + 1, Append(out, B[ib + 1]),
                                      0, bcount + 1, mg, ms_mg)
                    ELSE IF Len(A) - (ia + 1) = 1
                         THEN CopyB(ia + 1, ib, Append(out, A[ia + 1]), ms_mg)
                         ELSE IF acount + 1 >= mg
                         THEN Merging("gallop", ia + 1, ib, Append(out, A[ia + 1]),
                                      acount + 1, 0, mg + 1, ms_mg)
                         ELSE Merging("one", ia + 1, ib, Append(out, A[ia + 1]),
                                      acount + 1, 0, mg, ms_mg)
            IN  go(ISLT(B[ib + 1], A[ia + 1]))
        \* one round of the galloping loop
        galloping(ia0, ib0, out0, mg0) ==
            LET mg == IF mg0 > 1 THEN mg0 - 1 ELSE mg0
                \* the A elements that belong before B[ib0], then B[ib0]
                takeA(k) ==
                    LET ia == ia0 + k
                        out == out0 \o SubSeq(A, ia0 + 1, ia)
                        ib == ib0 + 1
                        \* the B elements that belong before A[ia], then A[ia]
                        takeB(k2) ==
                            LET ib2 == ib + k2
                                out2 == Append(out, B[ib0 + 1]) \o SubSeq(B, ib + 1, ib2)
                            IN  IF k2 < 0 THEN MergeFailed
                                ELSE IF k2 > 0 /\ ib2 = Len(B)
                                THEN Succeed(ia, ib2, out2, mg)
                                ELSE IF Len(A) - (ia + 1) = 1
                                THEN CopyB(ia + 1, ib2, Append(out2, A[ia + 1]), mg)
                                ELSE IF k >= MIN_GALLOP \/ k2 >= MIN_GALLOP
                                THEN Merging("gallop", ia + 1, ib2,
                                             Append(out2, A[ia + 1]), k, k2, mg, mg)
                                ELSE Merging("one", ia + 1, ib2,
                                             Append(out2, A[ia + 1]), 0, 0, mg + 1, mg + 1)
                    IN  IF k < 0 THEN MergeFailed
                        ELSE IF k > 0 /\ Len(A) - ia = 1 THEN CopyB(ia, ib0, out, mg)
                        ELSE IF k > 0 /\ Len(A) - ia = 0 THEN Succeed(ia, ib0, out, mg)
                        ELSE IF ib = Len(B)
                        THEN Succeed(ia, ib, Append(out, B[ib0 + 1]), mg)
                        ELSE takeB(gallop_left(A[ia + 1], B, ib, Len(B) - ib, 0))
            IN  takeA(gallop_right(B[ib0 + 1], A, ia0, Len(A) - ia0, 0))
        round(s) ==
            IF s.at = "one"
            THEN one_at_a_time(s.na, s.nb, s.out, s.acount, s.bcount, s.mg, s.ms_mg)
            ELSE galloping(s.na, s.nb, s.out, s.mg)
        \* at most rounds rounds from s on, the first half before the second
        RECURSIVE loop(_, _)
        loop(s, rounds) ==
            IF s.at \in {"done", "failed"} THEN s
            ELSE IF rounds <= 1 THEN round(s)
            ELSE loop(loop(s, rounds \div 2), rounds - (rounds \div 2))
    IN  IF Len(B) = 1 THEN Succeed(0, 1, <<B[1]>>, min_gallop)
        ELSE IF Len(A) = 1 THEN CopyB(0, 1, <<B[1]>>, min_gallop)
        ELSE loop(Merging("one", 0, 1, <<B[1]>>, 0, 0, min_gallop, min_gallop),
                  Len(A) + Len(B))

\* merge_hi: the run A and the run B after it (copied aside), na > nb,
\* merged from the right.
merge_hi(A, B, min_gallop) ==
    LET Succeed(na, nb, out, ms_mg) ==
            Merged(SubSeq(A, 1, na) \o SubSeq(B, 1, nb) \o out, ms_mg)
        CopyA(na, nb, out, ms_mg) ==
            Merged(SubSeq(B, 1, nb) \o SubSeq(A, 1, na) \o out, ms_mg)
        \* one round of the first inner loop
        one_at_a_time(na, nb, out, acount, bcount, mg, ms_mg) ==
            LET go(k) ==
                    IF k < 0 THEN MergeFailed
                    ELSE IF k = 1
                    THEN IF na - 1 = 0
                         THEN Succeed(na - 1, nb, <<A[na]>> \o out, ms_mg)
                         ELSE IF acount + 1 >= mg
                         THEN Merging("gallop", na - 1, nb, <<A[na]>> \o out,
                                      acount + 1, 0, mg + 1, ms_mg)
                         ELSE Merging("one", na - 1, nb, <<A[na]>> \o out,
                                      acount + 1, 0, mg, ms_mg)
                    ELSE IF nb - 1 = 1
                         THEN CopyA(na, nb - 1, <<B[nb]>> \o out, ms_mg)
                         ELSE IF bcount + 1 >= mg
                         THEN Merging("gallop", na, nb - 1, <<B[nb]>> \o out,
                                      0, bcount + 1, mg + 1, ms_mg)
                         ELSE Merging("one", na, nb - 1, <<B[nb]>> \o out,
                                      0, bcount + 1, mg, ms_mg)
            IN  go(ISLT(B[nb], A[na]))
        \* one round of the galloping loop
        galloping(na0, nb0, out0, mg0) ==
            LET mg == IF mg0 > 1 THEN mg0 - 1 ELSE mg0
                \* the A elements that belong after B[nb0], then B[nb0]
                takeA(g) ==
                    LET k == na0 - g
                        na == na0 - k
                        out == SubSeq(A, na + 1, na0) \o out0
                        nb == nb0 - 1
                        \* the B elements that belong after A[na], then A[na]
                        takeB(g2) ==
                            LET k2 == nb - g2
                                nb2 == nb - k2
                                out2 == SubSeq(B, nb2 + 1, nb) \o (<<B[nb0]>> \o out)
                            IN  IF g2 < 0 THEN MergeFailed
                                ELSE IF k2 > 0 /\ nb2 = 1 THEN CopyA(na, nb2, out2, mg)
                                ELSE IF k2 > 0 /\ nb2 = 0 THEN Succeed(na, nb2, out2, mg)
                                ELSE IF na - 1 = 0
                                THEN Succeed(na - 1, nb2, <<A[na]>> \o out2, mg)
                                ELSE IF k >= MIN_GALLOP \/ k2 >= MIN_GALLOP
                                THEN Merging("gallop", na - 1, nb2,
                                             <<A[na]>> \o out2, k, k2, mg, mg)
                                ELSE Merging("one", na - 1, nb2,
                                             <<A[na]>> \o out2, 0, 0, mg + 1, mg + 1)
                    IN  IF g < 0 THEN MergeFailed
                        ELSE IF k > 0 /\ na = 0 THEN Succeed(na, nb0, out, mg)
                        ELSE IF nb = 1 THEN CopyA(na, nb, <<B[nb0]>> \o out, mg)
                        ELSE takeB(gallop_left(A[na], B, 0, nb, nb - 1))
            IN  takeA(gallop_right(B[nb0], A, 0, na0, na0 - 1))
        round(s) ==
            IF s.at = "one"
            THEN one_at_a_time(s.na, s.nb, s.out, s.acount, s.bcount, s.mg, s.ms_mg)
            ELSE galloping(s.na, s.nb, s.out, s.mg)
        \* at most rounds rounds from s on, the first half before the second
        RECURSIVE loop(_, _)
        loop(s, rounds) ==
            IF s.at \in {"done", "failed"} THEN s
            ELSE IF rounds <= 1 THEN round(s)
            ELSE loop(loop(s, rounds \div 2), rounds - (rounds \div 2))
    IN  IF Len(A) = 1 THEN Succeed(0, Len(B), <<A[1]>>, min_gallop)
        ELSE IF Len(B) = 1 THEN CopyA(Len(A) - 1, 1, <<A[Len(A)]>>, min_gallop)
        ELSE loop(Merging("one", Len(A) - 1, Len(B), <<A[Len(A)]>>, 0, 0,
                          min_gallop, min_gallop),
                  Len(A) + Len(B))

\* The MergeState: the list, the stack of pending runs (base, len, power),
\* min_gallop, and whether a comparison has raised.
MergeState(a, pending, min_gallop) ==
    [a |-> a, pending |-> pending, min_gallop |-> min_gallop, failed |-> FALSE]

Failed(ms) == [ms EXCEPT !.failed = TRUE]

\* The stack of ms with the runs at positions i and i + 1 as one run.
merged_pending(ms, i) ==
    LET p == ms.pending
    IN  [j \in 1..(Len(p) - 1) |->
           IF j = i + 1 THEN [p[j] EXCEPT !.len = p[i + 1].len + p[i + 2].len]
           ELSE IF j = i + 2 THEN p[i + 3]
           ELSE p[j]]

\* The end of merge_at(ms, i): the na elements of A from position sa and
\* the first nb elements of B are merged; the elements of B after stay.
merge_at_runs(ms, i, sa, na, nb) ==
    LET a == ms.a
        ssb == ms.pending[i + 2].base
        put(m) == IF m.at = "failed" THEN Failed(ms)
                  ELSE MergeState(Slice(a, 0, sa) \o m.elems
                                      \o Slice(a, ssb + nb, Len(a)),
                                  merged_pending(ms, i), m.min_gallop)
    IN  IF nb < 0 THEN Failed(ms)
        ELSE IF nb = 0 THEN MergeState(a, merged_pending(ms, i), ms.min_gallop)
        ELSE put(IF na <= nb
                 THEN merge_lo(Slice(a, sa, sa + na), Slice(a, ssb, ssb + nb),
                               ms.min_gallop)
                 ELSE merge_hi(Slice(a, sa, sa + na), Slice(a, ssb, ssb + nb),
                               ms.min_gallop))

\* merge_at(ms, i) from where B starts in A, at offset k: the elements of
\* A before stay; then where A ends in B is found.
merge_at_from(ms, i, k) ==
    LET a == ms.a
        sa == ms.pending[i + 1].base + k
        na == ms.pending[i + 1].len - k
        ssb == ms.pending[i + 2].base
        nb0 == ms.pending[i + 2].len
    IN  IF k < 0 THEN Failed(ms)
        ELSE IF na = 0 THEN MergeState(a, merged_pending(ms, i), ms.min_gallop)
        ELSE merge_at_runs(ms, i, sa, na,
                           gallop_left(a[sa + na], a, ssb, nb0, nb0 - 1))

\* merge_at(ms, i): the runs at stack positions i and i + 1 become one
merge_at(ms, i) ==
    merge_at_from(ms, i,
                  gallop_right(ms.a[ms.pending[i + 2].base + 1], ms.a,
                               ms.pending[i + 1].base, ms.pending[i + 1].len, 0))

\* powerloop(s1, n1, n2, n): the power of the boundary between the run of
\* n1 elements at s1 and the run of n2 elements after it, in a list of n
RECURSIVE powerloop_from(_, _, _, _)
powerloop_from(a, b, n, result) ==
    IF a >= n THEN powerloop_from(2 * (a - n), 2 * (b - n), n, result + 1)
    ELSE IF b >= n THEN result + 1
    ELSE powerloop_from(2 * a, 2 * b, n, result + 1)

powerloop(s1, n1, n2, n) == powerloop_from(2 * s1 + n1, 2 * s1 + n1 + n1 + n2, n, 0)

\* The loop of found_new_run: merge while the run below the top has a
\* greater power.
RECURSIVE merge_above(_, _)
merge_above(ms, power) ==
    IF ~ms.failed /\ Len(ms.pending) > 1
       /\ ms.pending[Len(ms.pending) - 1].power > power
    THEN merge_above(merge_at(ms, Len(ms.pending) - 2), power)
    ELSE ms

\* found_new_run(ms, n2): a run of n2 elements follows the top of the stack
found_new_run(ms, n2) ==
    IF ms.pending = <<>> THEN ms
    ELSE LET top == ms.pending[Len(ms.pending)]
             power == powerloop(top.base, top.len, n2, Len(ms.a))
             set(m) == IF m.failed THEN m
                       ELSE [m EXCEPT !.pending[Len(m.pending)].power = power]
         IN  set(merge_above(ms, power))

RECURSIVE merge_force_collapse(_)
merge_force_collapse(ms) ==
    IF ms.failed \/ Len(ms.pending) <= 1 THEN ms
    ELSE LET n == Len(ms.pending) - 2
             at == IF n > 0 /\ ms.pending[n].len < ms.pending[n + 2].len
                   THEN n - 1 ELSE n
         IN  merge_force_collapse(merge_at(ms, at))

RECURSIVE merge_compute_minrun_from(_, _)
merge_compute_minrun_from(n, r) ==
    IF n >= 64 THEN merge_compute_minrun_from(n \div 2, IF n % 2 = 1 THEN 1 ELSE r)
    ELSE n + r

merge_compute_minrun(n) == merge_compute_minrun_from(n, 0)

\* The loop of list_sort over the runs, from position lo on.
RECURSIVE sort_runs(_, _, _)

\* The end of one round of the loop: found is ms after found_new_run, and
\* the run of n elements at lo is pushed.
run_pushed(found, lo, n, minrun) ==
    IF found.failed THEN found
    ELSE sort_runs([found EXCEPT !.pending =
                       Append(found.pending, [base |-> lo, len |-> n, power |-> 0])],
                   lo + n, minrun)

\* One round from where the run at lo is n elements long: r is the list
\* with the run in place, or the exception binarysort raised.
run_placed(ms, lo, n, minrun, r) ==
    IF r.raised # "" THEN Failed(ms)
    ELSE run_pushed(found_new_run([ms EXCEPT !.a = r.value], n), lo, n, minrun)

\* One round from what count_run found: a descending run is reversed, a
\* short one is extended to force elements.
run_counted(ms, lo, minrun, run) ==
    LET nremaining == Len(ms.a) - lo
        force == IF nremaining <= minrun THEN nremaining ELSE minrun
        n == run.n
        a == IF run.descending THEN reverse_slice(ms.a, lo, lo + n) ELSE ms.a
    IN  IF n < 0 THEN Failed(ms)
        ELSE run_placed(ms, lo, IF n < minrun THEN force ELSE n, minrun,
                        IF n < minrun THEN binarysort(a, lo, lo + force, lo + n)
                        ELSE Return(a))

sort_runs(ms, lo, minrun) ==
    IF Len(ms.a) - lo = 0 THEN ms
    ELSE run_counted(ms, lo, minrun, count_run(ms.a, lo, Len(ms.a)))

\* list_sort on the keyed list a, up to the MergeState it ends with
sorted_state(a) ==
    IF Len(a) < 2 THEN MergeState(a, <<>>, MIN_GALLOP)
    ELSE merge_force_collapse(
             sort_runs(MergeState(a, <<>>, MIN_GALLOP), 0, merge_compute_minrun(Len(a))))

\* list.sort(key=...) / sorted(..., key=...) on the values lst with the
\* keys already taken: the values in the order of their keys, or the
\* TypeError of a comparison
list_sort(lst, keys) ==
    LET done(ms) == IF ms.failed THEN Raise("TypeError")
                    ELSE Return(Slice([i \in 1..Len(lst) |-> ms.a[i].value],
                                      0, Len(lst)))
    IN  done(sorted_state(Slice([i \in 1..Len(lst) |->
                                   [key |-> keys[i], value |-> lst[i]]],
                                0, Len(lst))))

\* ------------------------------------------------------- type references
Named(kind, name) == [kind |-> kind, name |-> name]
NonNull(t) == [kind |-> "NON_NULL", ofType |-> t]
ListOf(t) == [kind |-> "LIST", ofType |-> t]

\* --------------------------------------------------- the drawn documents
\* The types a schema is drawn from: each name has one kind and one list of
\* fields.  Every drawn schema declares CoreNames, as every introspection
\* result declares the builtin scalars and the introspection types; which
\* of UserNames it declares and which 'implements' links it holds is drawn.
CoreNames == {"Int", "__Type", "__TypeKind"}
UserNames == {"A", "AConnection", "Bad", "C", "E", "In", "Node", "U", "W"}

PoolKind(name) ==
    CASE name \in {"A", "AConnection", "Bad", "__Type"} -> "OBJECT"
      [] name \in {"C", "Node"} -> "INTERFACE"
      [] name \in {"E", "__TypeKind"} -> "ENUM"
      [] name = "In" -> "INPUT_OBJECT"
      [] name = "Int" -> "SCALAR"
      [] name = "U" -> "UNION"
      [] name = "W" -> "LIST"
      [] OTHER -> "OBJECT"

TInt == Named("SCALAR", "Int")

Field(name, type, args) == [name |-> name, type |-> type, args |-> args]
Arg(name, type, defaultValue) ==
    [name |-> name, type |-> type, defaultValue |-> defaultValue]

PoolFields(name) ==
    CASE name = "A" ->
           << Field("Int", TInt, <<>>),
              Field("id", NonNull(TInt), <<>>),
              Field("a", Named("OBJECT", "A"),
                    << Arg("first", TInt, JStr("42")),
                       Arg("e", Named("ENUM", "E"), JStr("$e")),
                       Arg("in", ListOf(Named("INPUT_OBJECT", "In")), JNull),
                       Arg("opts", TInt,
                           JStr("{a: 1.50, b: [\"x\", null, RED, false]}")) >>),
              Field("c", Named("INTERFACE", "C"), <<>>),
              Field("u", ListOf(Named("UNION", "U")), <<>>),
              Field("t", NonNull(ListOf(Named("OBJECT", "__Type"))), <<>>) >>
      [] name = "AConnection" ->
           << Field("pageInfo", TInt, <<>>),
              Field("totalCount", NonNull(TInt), <<>>) >>
      [] name = "Bad" ->
           << Field("x", TInt,
                    << Arg("ok", TInt, JStr("true")),
                       Arg("bad", TInt, JStr("[1,")),
                       Arg("late", TInt, JNull) >>),
              Field("y", TInt, <<>>) >>
      [] name = "C" ->
           << Field("id", NonNull(TInt), <<>>),
              Field("c", ListOf(Named("INTERFACE", "C")), <<>>),
              Field("k", Named("ENUM", "__TypeKind"), <<>>) >>
      [] name = "Node" ->
           << Field("a", Named("OBJECT", "A"), <<>>),
              Field("id", NonNull(TInt), <<>>) >>
      [] name = "__Type" ->
           << Field("kind", NonNull(Named("ENUM", "__TypeKind")), <<>>) >>
      [] OTHER -> <<>>

PoolInputFields(name) ==
    IF name = "In"
    THEN << Field("e", Named("ENUM", "E"), <<>>),
            Field("in", Named("INPUT_OBJECT", "In"), <<>>),
            Field("Int", NonNull(ListOf(TInt)), <<>>),
            Field("u", Named("UNION", "U"), <<>>) >>
    ELSE <<>>

PoolEnumValues(name) ==
    CASE name = "E" -> << [name |-> "X"], [name |-> "Y"] >>
      [] name = "__TypeKind" -> << [name |-> "SCALAR"] >>
      [] OTHER -> <<>>

PoolPossibleTypes(name) ==
    IF name = "U" THEN << [name |-> "A"], [name |-> "Bad"] >> ELSE <<>>

\* The introspection object of one type: null members are empty lists.
TypeObject(name, kind, links) ==
    LET targets == NameList({l[2] : l \in {k \in links : k[1] = name}}, TRUE)
    IN  [ name |-> name,
          kind |-> kind,
          interfaces |-> [i \in 1..Len(targets) |-> [name |-> targets[i]]],
          fields |-> PoolFields(name),
          inputFields |-> PoolInputFields(name),
          enumValues |-> PoolEnumValues(name),
          possibleTypes |-> PoolPossibleTypes(name) ]

\* The links a schema declaring S may hold: a declared object or interface
\* implements C or Node (declared or not, itself included).
LinkPairs(S) == (S \cap {"A", "Bad", "C", "Node"}) \X {"C", "Node"}

\* The 'types' array of a document, in descending name order.
TypesArray(S, links) ==
    LET names == NameList(S, FALSE)
    IN  [i \in 1..Len(names) |-> TypeObject(names[i], PoolKind(names[i]), links)]

\* The introspection object ('__schema') declaring S with links.
Introspection(S, links) ==
    JObj([ types |-> JArr(TypesArray(S, links)),
           queryType |-> JObj([name |-> JStr("A")]),
           mutationType |-> JNull ])

\* The subsets of S of at most k elements.
RECURSIVE UpTo(_, _)
UpTo(S, k) ==
    IF k = 0 THEN {{}}
    ELSE LET smaller == UpTo(S, k - 1)
         IN  smaller \cup {L \cup {x} : L \in smaller, x \in S}

\* The introspection objects that declare the core types and the user
\* types U, with at most MaxLinks links.
Introspections(U) ==
    { Introspection(CoreNames \cup U, links) :
        links \in UpTo(LinkPairs(U), MaxLinks) }

\* An introspection object without 'types' (what an endpoint answers to a
\* query that did not ask for them).
NoTypes == JObj([queryType |-> JObj([name |-> JStr("A")])])

\* Introspection objects that hold no type: 'types' an empty object, and
\* 'types' an empty list beside a 'queryType' that is a str.
EmptyTypes == JObj([types |-> JObj(<<>>)])
StrQueryType == JObj([types |-> JArr(<<>>), queryType |-> JStr("x")])

\* An object whose members are not in name order.
Unordered == JDict(<<"b", "a">>, [a |-> JNum(2), b |-> JNum(1)])

\* Documents of other shapes: not an object, or an object whose members
\* 'types', 'data' and '__schema' are drawn from small sets of values.
OddDocuments ==
    { JNull, JArr(<<>>), JStr("x"), JNum(3) }
    \cup
    { JObj(m) : m \in
        UNION { [K -> { JNull, JStr("x"), JNum(0), JArr(<<>>), JObj(<<>>),
                        JObj([__schema |-> JNull]),
                        JObj([__schema |-> NoTypes]), NoTypes,
                        EmptyTypes, StrQueryType, Unordered }] :
                K \in SUBSET {"types", "data", "__schema"} } }

\* The three accepted shapes around one introspection object.
Shapes(s) == { s, JObj([data |-> JObj([__schema |-> s])]), JObj([__schema |-> s]) }

\* The documents that hold an introspection object declaring U.
Documents(U) == UNION { Shapes(s) : s \in Introspections(U) }

\* ------------------------------------------------------------------ state
VARIABLES
    pc,             \* the statement of main() / CodeGen.write the run is at
    out_file,       \* main's out_file: "unset", "<stdout>" or the path opened with 'w'
    doc,            \* load_schema's local 'schema': the parsed document, until CodeGen runs
    schema,         \* main's 'schema' / gen.schema: what load_schema returned
    types,          \* gen.types
    gen,            \* gen.query_type, ..., gen.uses_datetime, gen.uses_relay
    written_types,  \* gen.written_types
    todo,           \* write_types: the part of 'todo' its loop has not reached
    remaining,      \* write_types: 'remaining'
    out,            \* the calls of the writer so far, one event each
    calls,          \* the write_type_* calls so far
    err,            \* the exception that ended the run, or ""
    tref            \* one call of get_type_ref: its arguments and its result

vars == << pc, out_file, doc, schema, types, gen, written_types, todo,
           remaining, out, calls, err, tref >>

NoGen == [ query_type |-> JNull, mutation_type |-> JNull,
           subscription_type |-> JNull,
           uses_datetime |-> FALSE, uses_relay |-> FALSE ]

NoCall == [ t |-> TInt, siblings |-> {}, result |-> <<>> ]

\* doc while load_schema is not running
NoDoc == [ j |-> "unread" ]

\* ------------------------------------------------------------ load_schema
load_schema(d) ==
    IF d.j # "object" THEN Raise("SystemExit")
    ELSE IF Truthy(DictGet(d, "types", JNull)) THEN Return(d)
    ELSE LET data == DictGet(d, "data", JObj(<<>>))
         IN  IF data.j # "object" THEN Raise("AttributeError")
             ELSE IF Truthy(DictGet(data, "__schema", JNull))
                  THEN Return(d.m["data"].m["__schema"])
             ELSE IF Truthy(DictGet(d, "__schema", JNull))
                  THEN Return(d.m["__schema"])
             ELSE Raise("SystemExit")

\* --------------------------------------------------------------- CodeGen
\* schema['types']
subscript_types(s) ==
    IF s.j # "object" THEN Raise("TypeError")
    ELSE IF "types" \notin DOMAIN s.m THEN Raise("KeyError")
    ELSE Return(s.m["types"])

\* What a loop over v visits: the elements of a list, the keys of a dict,
\* the characters of a str; None and a number are not iterable.
iterate(v) ==
    CASE v.j = "array" -> Return(v.a)
      [] v.j = "object" ->
           Return([i \in 1..Len(v.keys) |-> JStr(v.keys[i])])
      [] v.j = "string" -> Return([i \in 1..Len(v.s) |-> JStr(CharAt(v.s, i))])
      [] OTHER -> Raise("TypeError")

\* x['name'] of an element: a type object has the member; a JSON object
\* may lack it; no other value takes a str subscript
name_key(x) ==
    IF "j" \notin DOMAIN x THEN Return(JStr(x.name))
    ELSE IF x.j # "object" THEN Raise("TypeError")
    ELSE IF "name" \notin DOMAIN x.m THEN Raise("KeyError")
    ELSE Return(x.m["name"])

\* sorted(v, key=lambda x: x['name']): the keys are taken in order, then
\* the list is sorted by them.
sorted_by_name(v) ==
    LET it == iterate(v)
        lst == it.value
        keys == [i \in 1..Len(lst) |-> name_key(lst[i])]
        bad == {i \in 1..Len(lst) : keys[i].raised # ""}
    IN  IF it.raised # "" THEN it
        ELSE IF bad # {}
        THEN Raise(keys[CHOOSE i \in bad : \A k \in bad : i <= k].raised)
        ELSE list_sort(lst, [i \in 1..Len(lst) |-> keys[i].value])

\* get_path: None for a missing member; a value that is true and no dict
\* has no get
RECURSIVE get_path(_, _)
get_path(d, path) ==
    IF Truthy(d) /\ path # <<>>
    THEN IF d.j # "object" THEN Raise("AttributeError")
         ELSE get_path(DictGet(d, Head(path), JNull), Tail(path))
    ELSE Return(d)

analyze(ts) ==
    [ uses_datetime |->
        \E i \in 1..Len(ts) : name_key(ts[i]).value \in {JStr(n) : n \in datetime_types},
      uses_relay |->
        \E i \in 1..Len(ts) : name_key(ts[i]).value \in {JStr(n) : n \in relay_types} ]

\* CodeGen(schema_name, schema, writer): the attributes __init__ sets, or
\* the exception of its first statement that raises.  type_by_name needs
\* every name hashable.
CodeGen_init(s) ==
    LET query == get_path(s, <<"queryType", "name">>)
        mutation == get_path(s, <<"mutationType", "name">>)
        subscription == get_path(s, <<"subscriptionType", "name">>)
        \* sorted is self.types, or the exception that sorting raised
        with(sorted) ==
            IF sorted.raised # "" THEN Raise(sorted.raised)
            ELSE IF \E i \in 1..Len(sorted.value) :
                       name_key(sorted.value[i]).value.j \in {"array", "object"}
            THEN Raise("TypeError")
            ELSE IF query.raised # "" THEN Raise(query.raised)
            ELSE IF mutation.raised # "" THEN Raise(mutation.raised)
            ELSE IF subscription.raised # "" THEN Raise(subscription.raised)
            ELSE Return([ types |-> sorted.value,
                          query_type |-> query.value,
                          mutation_type |-> mutation.value,
                          subscription_type |-> subscription.value,
                          uses_datetime |-> analyze(sorted.value).uses_datetime,
                          uses_relay |-> analyze(sorted.value).uses_relay ])
        ts == subscript_types(s)
    IN  IF ts.raised # "" THEN Raise(ts.raised)
        ELSE with(sorted_by_name(ts.value))

type_by_name(name) ==
    LET hits == {i \in 1..Len(types) : types[i].name = name}
    IN  types[CHOOSE i \in hits : \A k \in hits : k <= i]

declared(name) == \E i \in 1..Len(types) : types[i].name = name

\* ---------------------------------------------------------- get_type_ref
\* get_type_ref without the test on siblings
RECURSIVE get_type_ref_ignoring_siblings(_, _)
get_type_ref_ignoring_siblings(t, siblings) ==
    IF t.kind = "NON_NULL"
    THEN <<"sgqlc.types.non_null(">>
             \o get_type_ref_ignoring_siblings(t.ofType, siblings) \o <<")">>
    ELSE IF t.kind = "LIST"
    THEN <<"sgqlc.types.list_of(">>
             \o get_type_ref_ignoring_siblings(t.ofType, siblings) \o <<")">>
    ELSE IF t.name \in written_types
    THEN <<t.name>>
    ELSE <<repr(t.name)>>

\* get_type_ref testing type_by_name where the code tests written_types
RECURSIVE get_type_ref_of_declared(_, _)
get_type_ref_of_declared(t, siblings) ==
    IF t.kind = "NON_NULL"
    THEN <<"sgqlc.types.non_null(">>
             \o get_type_ref_of_declared(t.ofType, siblings) \o <<")">>
    ELSE IF t.kind = "LIST"
    THEN <<"sgqlc.types.list_of(">>
             \o get_type_ref_of_declared(t.ofType, siblings) \o <<")">>
    ELSE IF declared(t.name) /\ t.name \notin siblings
    THEN <<t.name>>
    ELSE <<repr(t.name)>>

RECURSIVE get_type_ref(_, _)
get_type_ref(t, siblings) ==
    IF t.kind = "NON_NULL"
    THEN <<"sgqlc.types.non_null(">> \o get_type_ref(t.ofType, siblings) \o <<")">>
    ELSE IF t.kind = "LIST"
    THEN <<"sgqlc.types.list_of(">> \o get_type_ref(t.ofType, siblings) \o <<")">>
    ELSE IF t.name \in written_types /\ t.name \notin siblings
    THEN <<t.name>>
    ELSE <<repr(t.name)>>

get_py_fields_and_siblings(own_fields) ==
    LET graphql_fields == [i \in 1..Len(own_fields) |-> own_fields[i].name]
    IN  [ py_fields |-> [i \in 1..Len(graphql_fields) |->
                            to_python_name(graphql_fields[i])],
          siblings |-> {graphql_fields[i] : i \in 1..Len(graphql_fields)} ]

\* ----------------------------------------------------- the field writers
\* Each writer yields the events it hands to self.writer before it returns
\* or raises, and the exception it raises ("" when it returns).
Wrote(evs) == [raised |-> "", evs |-> evs]
Broke(e, evs) == [raised |-> e, evs |-> evs]

RECURSIVE Flatten(_)
Flatten(ss) == IF ss = <<>> THEN <<>> ELSE Head(ss) \o Flatten(Tail(ss))

\* for x in items: write(x), ending at the first call that raises
WriteEach(results) ==
    LET bad == {i \in 1..Len(results) : results[i].raised # ""}
        last == IF bad = {} THEN Len(results)
                ELSE CHOOSE i \in bad : \A k \in bad : i <= k
        evs == Flatten([i \in 1..last |-> results[i].evs])
    IN  IF bad = {} THEN Wrote(evs) ELSE Broke(results[last].raised, evs)

\* The ValueNode classes whose objects have the attribute 'value'.
has_value == {"IntValue", "FloatValue", "StringValue", "BooleanValue", "EnumValue"}

\* v = visit(value, JSONOutputVisitor()), then v.value when v is a
\* ValueNode, as every node of the value grammar is
parse_graphql_value_to_json(source) ==
    LET value_of(v) ==
            IF v.py # "node" THEN Return(v)
            ELSE IF v.node.kind \notin has_value THEN Raise("AttributeError")
            ELSE IF v.node.kind = "BooleanValue" THEN Return(PyBool(v.node.value))
            ELSE Return(PyStr(v.node.value))
        visited(value) == IF value.raised # "" THEN Raise(value.raised)
                          ELSE value_of(visit(value.value))
    IN  visited(parse_graphql_value(source))

write_arg(arg, siblings) ==
    LET tref_ == get_type_ref(arg.type, siblings)
        defval == arg.defaultValue
        ev(d) == [ ev |-> "arg", py_name |-> to_python_name(arg.name),
                   gql_name |-> arg.name, type |-> tref_, default |-> d ]
    IN  IF ~Truthy(defval) THEN Wrote(<<ev(defval)>>)
        ELSE IF defval.j # "string" THEN Broke("AttributeError", <<>>)
        ELSE IF startswith(defval.s, "$")
        THEN Wrote(<<ev(JStr("sgqlc.types.Variable(" \o repr(after_first(defval.s))
                             \o ")"))>>)
        ELSE LET with_default(v) ==
                     IF v.raised # "" THEN Broke(v.raised, <<>>)
                     ELSE Wrote(<<ev(JStr(py_repr(v.value)))>>)
             IN  with_default(parse_graphql_value_to_json(defval.s))

write_field_input(field, siblings) ==
    Wrote(<< [ ev |-> "field", py_name |-> to_python_name(field.name),
               gql_name |-> field.name,
               type |-> get_type_ref(field.type, siblings), closed |-> TRUE ] >>)

write_field_output(field, siblings) ==
    LET head == << [ ev |-> "field", py_name |-> to_python_name(field.name),
                     gql_name |-> field.name,
                     type |-> get_type_ref(field.type, siblings),
                     closed |-> FALSE ] >>
        args == field.args
        with_args(written) ==
            IF written.raised # ""
            THEN Broke(written.raised, head \o <<[ev |-> "args_open"]>> \o written.evs)
            ELSE Wrote(head \o <<[ev |-> "args_open"]>> \o written.evs
                       \o <<[ev |-> "args_close"], [ev |-> "field_close"]>>)
    IN  IF args = <<>> THEN Wrote(head \o <<[ev |-> "field_close"]>>)
        ELSE with_args(WriteEach([i \in 1..Len(args) |->
                                    write_arg(args[i], siblings)]))

\* ------------------------------------------------------ the type writers
\* Each yields the events written, the exception raised ("" when it
\* returns) and the names it adds to written_types.
Done(evs, names) == [raised |-> "", evs |-> evs, written |-> names]
Fail(e, evs) == [raised |-> e, evs |-> evs, written |-> {}]

write_type_container(t, bases, own_fields, output) ==
    LET fs == get_py_fields_and_siblings(own_fields)
        head == << [ ev |-> "class", name |-> t.name, bases |-> bases,
                     field_names |-> fs.py_fields ] >>
        with_fields(body) ==
            IF body.raised # "" THEN Fail(body.raised, head \o body.evs)
            ELSE Done(head \o body.evs \o <<[ev |-> "end"]>>, {t.name})
    IN  with_fields(WriteEach([i \in 1..Len(own_fields) |->
            IF output THEN write_field_output(own_fields[i], fs.siblings)
            ELSE write_field_input(own_fields[i], fs.siblings)]))

\* write_type_enum adding the name before its test on the builtin names
write_type_enum_marking_builtins(t) ==
    IF t.name \in builtin_enum_names THEN Done(<<>>, {t.name})
    ELSE Done(<< [ ev |-> "enum", name |-> t.name,
                   choices |-> [i \in 1..Len(t.enumValues) |-> t.enumValues[i].name] ] >>,
              {t.name})

write_type_enum(t) ==
    IF t.name \in builtin_enum_names THEN Done(<<>>, {})
    ELSE Done(<< [ ev |-> "enum", name |-> t.name,
                   choices |-> [i \in 1..Len(t.enumValues) |-> t.enumValues[i].name] ] >>,
              {t.name})

write_type_scalar(t) ==
    LET base == IF t.name \in builtin_types THEN "sgqlc.types." \o t.name
                ELSE IF t.name \in datetime_types THEN "sgqlc.types.datetime." \o t.name
                ELSE "sgqlc.types.Scalar"
    IN  Done(<< [ev |-> "scalar", name |-> t.name, base |-> base], [ev |-> "end"] >>,
             {t.name})

write_type_input_object(t) ==
    write_type_container(t, <<"sgqlc.types.Input">>, t.inputFields, FALSE)

write_type_interface(t) ==
    write_type_container(t, <<"sgqlc.types.Interface">>, t.fields, TRUE)

\* the loop over the interfaces without its assert
iface_check_unasserted(t) ==
    IF \E i \in 1..Len(t.interfaces) : ~declared(t.interfaces[i].name)
    THEN "KeyError"
    ELSE ""

\* The loop over t['interfaces']: the first interface that is not in
\* written_types fails the assertion; an interface that is not declared
\* would fail the lookup in type_by_name.
iface_check(t) ==
    LET ifaces == t.interfaces
        unwritten == {i \in 1..Len(ifaces) : ifaces[i].name \notin written_types}
        unknown == {i \in 1..Len(ifaces) : ~declared(ifaces[i].name)}
        first(S) == CHOOSE i \in S : \A k \in S : i <= k
    IN  IF unwritten # {} /\ (unknown = {} \/ first(unwritten) <= first(unknown))
        THEN "AssertionError"
        ELSE IF unknown # {} THEN "KeyError"
        ELSE ""

inherited_fields(t) ==
    UNION { { type_by_name(t.interfaces[i].name).fields[k].name :
                k \in 1..Len(type_by_name(t.interfaces[i].name).fields) } :
            i \in 1..Len(t.interfaces) }

\* own_fields without the filter on the inherited names
select_all_fields(fields, inherited) == fields

select_own_fields(fields, inherited) ==
    SelectSeq(fields, LAMBDA field : field.name \notin inherited)

write_type_object(t) ==
    IF t.name \in builtin_object_names THEN Done(<<>>, {})
    ELSE LET first == IF gen.uses_relay /\ endswith(t.name, "Connection")
                      THEN "sgqlc.types.relay.Connection"
                      ELSE "sgqlc.types.Type"
             bases == <<first>> \o [i \in 1..Len(t.interfaces) |-> t.interfaces[i].name]
         IN  IF iface_check(t) # "" THEN Fail(iface_check(t), <<>>)
             ELSE write_type_container(
                      t, bases, select_own_fields(t.fields, inherited_fields(t)), TRUE)

write_type_union(t) ==
    Done(<< [ ev |-> "union", name |-> t.name,
              types |-> [i \in 1..Len(t.possibleTypes) |-> t.possibleTypes[i].name],
              trailing_comma |-> Len(t.possibleTypes) = 1 ] >>,
         {t.name})

write_banner(text) == << [ev |-> "banner", text |-> text] >>

write_header_events ==
    <<[ev |-> "import"]>>
    \o (IF gen.uses_datetime THEN <<[ev |-> "import_datetime"]>> ELSE <<>>)
    \o (IF gen.uses_relay THEN <<[ev |-> "import_relay"]>> ELSE <<>>)
    \o <<[ev |-> "schema"]>>
    \o (IF gen.uses_relay THEN <<[ev |-> "relay_fixup"]>> ELSE <<>>)

\* ---------------------------------------------------------------- main()
Init ==
    /\ pc = "main"
    /\ out_file = "unset"
    /\ doc = NoDoc
    /\ schema = JNull
    /\ types = <<>>
    /\ gen = NoGen
    /\ written_types = {}
    /\ todo = <<>>
    /\ remaining = <<>>
    /\ out = <<>>
    /\ calls = <<>>
    /\ err = ""
    /\ tref = NoCall

\* gen_out_file: standard output for standard input, else <dir>/<name>.py
\* opened with 'w' (which creates or truncates it).
gen_out_file(in_fname) ==
    IF in_fname = "<stdin>" THEN "<stdout>" ELSE "schema.py"

\* main() up to 'out_file = gen_out_file(...)': argparse opens a given
\* schema.py with 'w' ("-" is standard output); without one gen_out_file
\* chooses and opens the output.
main_open ==
    /\ pc = "main"
    /\ \E in_fname \in {"<stdin>", "schema.json"},
          out_arg \in {"None", "<stdout>", "schema.py"} :
          out_file' = IF out_arg # "None" THEN out_arg ELSE gen_out_file(in_fname)
    /\ pc' = "load_schema"
    /\ UNCHANGED << doc, schema, types, gen, written_types, todo, remaining,
                    out, calls, err, tref >>

\* schema = load_schema(in_file), for the document d that json.load read
Loaded(d) ==
    LET r == load_schema(d)
    IN  /\ doc' = d
        /\ schema' = r.value
        /\ err' = r.raised
        /\ pc' = IF r.raised = "" THEN "CodeGen" ELSE "failed"

\* schema = load_schema(in_file): json.load reads a document of an odd
\* shape, or one that holds the introspection of at most MaxTypes user
\* types.
main_load_schema ==
    /\ pc = "load_schema"
    /\ \/ \E d \in OddDocuments : Loaded(d)
       \/ \E U \in UpTo(UserNames, MaxTypes) : \E d \in Documents(U) : Loaded(d)
    /\ UNCHANGED << out_file, types, gen, written_types, todo, remaining,
                    out, calls, tref >>

\* gen = CodeGen(schema_name, schema, out_file.write)
main_CodeGen ==
    /\ pc = "CodeGen"
    /\ doc' = NoDoc
    /\ \E init \in {CodeGen_init(schema)} :
           IF init.raised # ""
           THEN /\ err' = init.raised
                /\ pc' = "failed"
                /\ UNCHANGED << types, gen, written_types >>
           ELSE /\ types' = init.value.types
                /\ gen' = [ query_type |-> init.value.query_type,
                            mutation_type |-> init.value.mutation_type,
                            subscription_type |-> init.value.subscription_type,
                            uses_datetime |-> init.value.uses_datetime,
                            uses_relay |-> init.value.uses_relay ]
                /\ written_types' = {}
                /\ pc' = "write_header"
                /\ err' = err
    /\ UNCHANGED << out_file, schema, todo, remaining, out, calls, tref >>

write_header ==
    /\ pc = "write_header"
    /\ out' = out \o write_header_events
    /\ pc' = "write_types"
    /\ UNCHANGED << out_file, doc, schema, types, gen, written_types, todo,
                    remaining, calls, err, tref >>

\* --------------------------------------------------------- write_types
mapper_basic == {"ENUM", "SCALAR"}
mapper_input_containers == {"INPUT_OBJECT"}
mapper_output_containers == {"INTERFACE", "OBJECT"}
mapper_post == {"UNION"}

\* a mapper of the input phase that also holds the union writer
mapper_with_early_unions(phase) ==
    CASE phase = "basic" -> mapper_basic
      [] phase = "input" -> mapper_input_containers \cup {"UNION"}
      [] phase = "output" -> mapper_output_containers
      [] phase = "post" -> mapper_post

\* The kinds the loop of a phase hands to a writer.
mapper(phase) ==
    CASE phase = "basic" -> mapper_basic
      [] phase = "input" -> mapper_input_containers
      [] phase = "output" -> mapper_output_containers
      [] phase = "post" -> mapper_post

Phases == {"basic", "input", "output", "post"}

\* One phase begins: its banner, todo and remaining.
Begin(phase, text, list) ==
    /\ out' = out \o write_banner(text)
    /\ todo' = list
    /\ remaining' = <<>>
    /\ pc' = phase
    /\ UNCHANGED << out_file, doc, schema, types, gen, written_types, calls,
                    err, tref >>

begin_basic ==
    /\ pc = "write_types"
    /\ Begin("basic", "Scalars and Enumerations", types)

begin_input ==
    /\ pc = "basic" /\ todo = <<>>
    /\ Begin("input", "Input Objects", remaining)

\* remaining.sort(key=self.get_depend_sort_key()) comes first; no
\* comparison of depend_cmp raises on types that have their members
begin_output ==
    /\ pc = "input" /\ todo = <<>>
    /\ Begin("output", "Output Objects and Interfaces",
             list_sort(remaining,
                       [i \in 1..Len(remaining) |->
                          get_depend_sort_key(remaining[i])]).value)

begin_post ==
    /\ pc = "output" /\ todo = <<>>
    /\ Begin("post", "Unions", remaining)

\* mapped is None: remaining.append(t)
keep_remaining ==
    /\ pc \in Phases /\ todo # <<>>
    /\ Head(todo).kind \notin mapper(pc)
    /\ remaining' = Append(remaining, Head(todo))
    /\ todo' = Tail(todo)
    /\ UNCHANGED << pc, out_file, doc, schema, types, gen, written_types, out,
                    calls, err, tref >>

\* mapped(t), with what the writer fn did as r
Mapped(fn, r) ==
    /\ out' = out \o r.evs
    /\ written_types' = written_types \cup r.written
    /\ calls' = Append(calls, [fn |-> fn, name |-> Head(todo).name, phase |-> pc])
    /\ IF r.raised = ""
       THEN todo' = Tail(todo) /\ pc' = pc /\ err' = err
       ELSE todo' = todo /\ pc' = "failed" /\ err' = r.raised
    /\ UNCHANGED << out_file, doc, schema, types, gen, remaining, tref >>

call_write_type_enum ==
    /\ pc \in Phases /\ todo # <<>>
    /\ Head(todo).kind \in mapper(pc) /\ Head(todo).kind = "ENUM"
    /\ Mapped("write_type_enum", write_type_enum(Head(todo)))

call_write_type_scalar ==
    /\ pc \in Phases /\ todo # <<>>
    /\ Head(todo).kind \in mapper(pc) /\ Head(todo).kind = "SCALAR"
    /\ Mapped("write_type_scalar", write_type_scalar(Head(todo)))

call_write_type_input_object ==
    /\ pc \in Phases /\ todo # <<>>
    /\ Head(todo).kind \in mapper(pc) /\ Head(todo).kind = "INPUT_OBJECT"
    /\ Mapped("write_type_input_object", write_type_input_object(Head(todo)))

call_write_type_interface ==
    /\ pc \in Phases /\ todo # <<>>
    /\ Head(todo).kind \in mapper(pc) /\ Head(todo).kind = "INTERFACE"
    /\ Mapped("write_type_interface", write_type_interface(Head(todo)))

call_write_type_object ==
    /\ pc \in Phases /\ todo # <<>>
    /\ Head(todo).kind \in mapper(pc) /\ Head(todo).kind = "OBJECT"
    /\ Mapped("write_type_object", write_type_object(Head(todo)))

call_write_type_union ==
    /\ pc \in Phases /\ todo # <<>>
    /\ Head(todo).kind \in mapper(pc) /\ Head(todo).kind = "UNION"
    /\ Mapped("write_type_union", write_type_union(Head(todo)))

\* assert not remaining
final_assert ==
    /\ pc = "post" /\ todo = <<>>
    /\ IF remaining = <<>>
       THEN pc' = "write_entry_points" /\ err' = err
       ELSE pc' = "failed" /\ err' = "AssertionError"
    /\ UNCHANGED << out_file, doc, schema, types, gen, written_types, todo,
                    remaining, out, calls, tref >>

write_entry_points ==
    /\ pc = "write_entry_points"
    /\ out' = out \o write_banner("Schema Entry Points")
                  \o << [ ev |-> "entry_points",
                          query_type |-> gen.query_type,
                          mutation_type |-> gen.mutation_type,
                          subscription_type |-> gen.subscription_type ] >>
    /\ pc' = "close"
    /\ UNCHANGED << out_file, doc, schema, types, gen, written_types, todo,
                    remaining, calls, err, tref >>

\* out_file.close()
main_close ==
    /\ pc = "close"
    /\ pc' = "done"
    /\ UNCHANGED << out_file, doc, schema, types, gen, written_types, todo,
                    remaining, out, calls, err, tref >>

Next ==
    \/ main_open
    \/ main_load_schema
    \/ main_CodeGen
    \/ write_header
    \/ begin_basic
    \/ begin_input
    \/ begin_output
    \/ begin_post
    \/ keep_remaining
    \/ call_write_type_enum
    \/ call_write_type_scalar
    \/ call_write_type_input_object
    \/ call_write_type_interface
    \/ call_write_type_object
    \/ call_write_type_union
    \/ final_assert
    \/ write_entry_points
    \/ main_close

Spec == Init /\ [][Next]_vars

\* ------------------------------------------- the phase-3 sort on its own
\* The names of the short lists, ascending.
SortNames == << "A", "B", "C", "D", "E", "F" >>

\* A list as phase 2 leaves it in 'remaining': the output types names in
\* ascending name order with the links among them; a type that another one
\* implements is an INTERFACE, the others are OBJECTs.
SortList(names, links) ==
    [ i \in 1..Len(names) |->
        TypeObject(names[i],
                   IF \E l \in links : l[2] = names[i] /\ l[1] # names[i]
                   THEN "INTERFACE" ELSE "OBJECT",
                   links) ]

\* The lists of n types with at most MaxLinks links among them.
SortLists(n) ==
    { SortList(SubSeq(SortNames, 1, n), links) :
        links \in UpTo({SortNames[i] : i \in 1..n}
                          \X {SortNames[i] : i \in 1..n}, MaxLinks) }

\* The long lists: from 64 elements on list.sort merges runs.  The names
\* are T001, T002, ...
LongLen(k) == 64 + 13 * k

LongName(i) == "T" \o zeros(3 - Len(nat_str(i))) \o nat_str(i)

\* Pattern seed of the links of n types: whether type i has no interfaces,
\* and the types it implements when it has some.  Under an even seed the
\* implemented types have no interfaces themselves; under a seed of 1, 5,
\* ... they come before the implementor in name order, so that no cycle
\* arises; under a seed of 3, 7, ... they are any types.
LongPlain(i, seed) ==
    i = 1 \/ (((i * i * (2 * seed + 3)) \div 7) + 3 * i) % 9 < 3 + (seed % 4)

LongTargets(i, n, seed) ==
    LET any == { ((i * (7 + 2 * c) + 11 * seed + 5 * c * c) % n) + 1 :
                   c \in 1..(1 + ((i + seed) % 3)) }
        plain(t) == LET later == {k \in t..n : LongPlain(k, seed)}
                    IN  IF later = {} THEN 1
                        ELSE CHOOSE k \in later : \A m \in later : k <= m
    IN  IF LongPlain(i, seed) THEN {}
        ELSE IF seed % 2 = 0 THEN {plain(t) : t \in any}
        ELSE IF seed % 4 = 1 THEN {((t - 1) % (i - 1)) + 1 : t \in any}
        ELSE any

LongList(n, seed) ==
    SortList([i \in 1..n |-> LongName(i)],
             UNION { {<<LongName(i), LongName(t)>> : t \in LongTargets(i, n, seed)} :
                     i \in 1..n })

\* write_types from the sort of phase 3 to the end of its loop, on a list
\* of output types alone.
InitSort ==
    /\ pc = "input"
    /\ out_file = "<stdout>"
    /\ doc = NoDoc
    /\ schema = JNull
    /\ \/ \E n \in 1..MaxSort : remaining \in SortLists(n)
       \/ \E k \in 0..MaxStretch, seed \in 0..MaxSeed :
             remaining = LongList(LongLen(k), seed)
    /\ types = remaining
    /\ gen = NoGen
    /\ written_types = {}
    /\ todo = <<>>
    /\ out = <<>>
    /\ calls = <<>>
    /\ err = ""
    /\ tref = NoCall

NextSort ==
    \/ begin_output
    \/ call_write_type_interface
    \/ call_write_type_object

SpecSort == InitSort /\ [][NextSort]_vars

\* -------------------------------------------------- get_type_ref on its own
RefNames == {"A", "Int"}
RefSiblings == {"A", "Int", "id"}

RECURSIVE Refs(_)
Refs(depth) ==
    IF depth = 0 THEN { Named(PoolKind(n), n) : n \in RefNames }
    ELSE Refs(depth - 1)
         \cup { NonNull(t) : t \in Refs(depth - 1) }
         \cup { ListOf(t) : t \in Refs(depth - 1) }

InitRef ==
    /\ pc = "get_type_ref"
    /\ out_file = "<stdout>"
    /\ doc = NoDoc
    /\ schema = JNull
    /\ types = <<>>
    /\ gen = NoGen
    /\ written_types \in SUBSET RefNames
    /\ todo = <<>>
    /\ remaining = <<>>
    /\ out = <<>>
    /\ calls = <<>>
    /\ err = ""
    /\ tref \in [ t : Refs(MaxDepth), siblings : SUBSET RefSiblings, result : {<<>>} ]

call_get_type_ref ==
    /\ pc = "get_type_ref"
    /\ tref' = [tref EXCEPT !.result = get_type_ref(tref.t, tref.siblings)]
    /\ pc' = "returned"
    /\ UNCHANGED << out_file, doc, schema, types, gen, written_types, todo,
                    remaining, out, calls, err >>

NextRef == call_get_type_ref

SpecRef == InitRef /\ [][NextRef]_vars

\* ============================================================== claims
\* ---------------------------------------------- reading the output stream
StartEvents == {"class", "scalar", "enum", "union"}
MarkEvents == StartEvents \cup {"end", "banner", "entry_points"}

\* The positions of out where a declaration begins.
DeclStarts == {i \in 1..Len(out) : out[i].ev \in StartEvents}

\* The position where the declaration begun at i is complete, 0 when it is
\* not: an enum or a union is one event, a scalar or a class ends with the
\* blank lines written after it.
DeclEnd(i) ==
    IF out[i].ev \in {"enum", "union"} THEN i
    ELSE LET marks == {j \in (i + 1)..Len(out) : out[j].ev \in MarkEvents}
             j == IF marks = {} THEN 0
                  ELSE CHOOSE m \in marks : \A k \in marks : m <= k
         IN  IF j # 0 /\ out[j].ev = "end" THEN j ELSE 0

\* The last position of the declaration begun at i, complete or not.
DeclLast(i) ==
    IF DeclEnd(i) # 0 THEN DeclEnd(i)
    ELSE LET marks == {j \in (i + 1)..Len(out) : out[j].ev \in MarkEvents}
         IN  IF marks = {} THEN Len(out)
             ELSE (CHOOSE m \in marks : \A k \in marks : m <= k) - 1

\* name's declaration is complete before position p
DeclaredBefore(name, p) ==
    \E s \in DeclStarts : out[s].name = name /\ DeclEnd(s) # 0 /\ DeclEnd(s) < p

WrittenDecls == {out[s].name : s \in {i \in DeclStarts : DeclEnd(i) # 0}}

KindOf(name) == type_by_name(name).kind

\* The positions of the OBJECT declarations in out.
ObjectStarts ==
    {i \in DeclStarts : out[i].ev = "class" /\ declared(out[i].name)
                        /\ KindOf(out[i].name) = "OBJECT"}

\* ----------------------------------------------------------------- C1
\* The names the types named in from implement, directly or not.
RECURSIVE Reach(_, _)
Reach(lst, from) ==
    LET more == from \cup
                UNION { {lst[i].interfaces[k].name : k \in 1..Len(lst[i].interfaces)} :
                        i \in {h \in 1..Len(lst) : lst[h].name \in from} }
    IN  IF more = from THEN from ELSE Reach(lst, more)

Above(lst, i) ==
    IF lst[i].interfaces = <<>> THEN {}
    ELSE Reach(lst, {lst[i].interfaces[k].name : k \in 1..Len(lst[i].interfaces)})

\* The 'implements' relation of the list has no cycle.
Acyclic(lst) == \A i \in 1..Len(lst) : lst[i].name \notin Above(lst, i)

\* every interface of the type at position i of lst lies before i
InterfacesFirst(lst) ==
    \A i \in 1..Len(lst) : \A k \in 1..Len(lst[i].interfaces) :
        \E h \in 1..(i - 1) : lst[h].name = lst[i].interfaces[k].name

\* The phase-3 sort has run and no type was handed to a writer yet: todo is
\* the sorted list.
Sorted == pc = "output" /\ calls = <<>>

\* C1: for every list whose 'implements' relation is acyclic and names only
\* types of the list, the phase-3 order (list.sort with depend_cmp on the
\* list in ascending name order) places every interface before every type
\* that implements it.
C1_SortPutsInterfacesFirst ==
    (Sorted /\ Acyclic(todo)) => InterfacesFirst(todo)

\* ----------------------------------------------------------------- C9
HasIfaces(t) == t.interfaces # <<>>

\* no type that another type implements lists interfaces of its own
FlatInterfaces(lst) ==
    \A i \in 1..Len(lst) : \A k \in 1..Len(lst[i].interfaces) :
        \A h \in 1..Len(lst) :
            lst[h].name = lst[i].interfaces[k].name => ~HasIfaces(lst[h])

\* C9: after the phase-3 sort every type without interfaces precedes every
\* type with interfaces, whatever the links among the latter and whether
\* the sort merged runs or not; the sorted list holds the same types; when
\* no implemented type lists interfaces of its own, every interface
\* precedes each of its implementors, and then no call of
\* write_type_object in the loop that follows fails its assertion.
C9_NoInterfacesFirst ==
    /\ Sorted =>
          /\ \A i \in 1..Len(todo) : \A k \in 1..Len(todo) :
                (HasIfaces(todo[i]) /\ ~HasIfaces(todo[k])) => k < i
          /\ Len(todo) = Len(types)
          /\ {todo[i] : i \in 1..Len(todo)} = {types[i] : i \in 1..Len(types)}
          /\ FlatInterfaces(todo) => InterfacesFirst(todo)
    /\ pc = "failed" => ~FlatInterfaces(types)

\* The order the types were handed to the writers in.
Handed == [c \in 1..Len(calls) |-> calls[c].name]

\* The loop of phase 3 has written every type of a list that list.sort
\* split into runs and merged: a list where no implemented type lists
\* interfaces of its own and where an implementor stood before its
\* interface.
C9_Witness ==
    /\ pc = "output" /\ todo = <<>>
    /\ Len(types) >= 64
    /\ Len(calls) = Len(types)
    /\ written_types = {types[i].name : i \in 1..Len(types)}
    /\ FlatInterfaces(types)
    /\ \E i \in 1..Len(types) : \E k \in 1..Len(types) :
          /\ i < k /\ HasIfaces(types[i]) /\ ~HasIfaces(types[k])
          /\ has_iface(types[i].interfaces, types[k].name)
    /\ Handed # [i \in 1..Len(types) |-> types[i].name]
    /\ merge_compute_minrun(Len(types)) < Len(types)

\* ----------------------------------------------------------------- C2
\* The call of write_type_object for name, if there was one.
CalledObject(name) ==
    \E c \in 1..Len(calls) : calls[c].fn = "write_type_object" /\ calls[c].name = name

\* C2: in the output of every run, finished or aborted, each interface an
\* OBJECT declaration lists was completely declared before the first text
\* of that declaration; an object that lists an interface not yet declared
\* gets no text at all, and the run ends there with the assertion error.
C2_InterfaceDeclaredBeforeObject ==
    /\ \A i \in ObjectStarts :
          \A k \in 1..Len(type_by_name(out[i].name).interfaces) :
              DeclaredBefore(type_by_name(out[i].name).interfaces[k].name, i)
    /\ \A c \in 1..Len(calls) :
          (/\ calls[c].fn = "write_type_object"
           /\ calls[c].name \notin builtin_object_names
           /\ \E k \in 1..Len(type_by_name(calls[c].name).interfaces) :
                 type_by_name(calls[c].name).interfaces[k].name \notin WrittenDecls)
          => /\ pc = "failed" /\ err = "AssertionError" /\ c = Len(calls)
             /\ \A i \in DeclStarts : out[i].name # calls[c].name

\* A finished run that declared an object after the two interfaces it lists.
C2_Witness ==
    /\ pc = "done"
    /\ \E i \in ObjectStarts :
          /\ Len(type_by_name(out[i].name).interfaces) = 2
          /\ DeclEnd(i) # 0

\* ----------------------------------------------------------------- C3
\* the output file was created or truncated by open(..., 'w')
Truncated == out_file \notin {"unset", "<stdout>"}

\* C3: a run that fails has neither opened (truncated) the output file nor
\* handed any text to the writer.
C3_FailureLeavesNoOutput ==
    pc = "failed" => (~Truncated /\ out = <<>>)

\* ----------------------------------------------------------------- C4
\* The names of the fields written in the declaration begun at i.
FieldsWritten(i) ==
    LET at == {p \in (i + 1)..DeclLast(i) : out[p].ev = "field"}
        nth(n) == CHOOSE p \in at : Cardinality({q \in at : q < p}) = n - 1
    IN  [n \in 1..Cardinality(at) |-> out[nth(n)].gql_name]

\* name is a field of an interface that t lists
OnInterface(t, name) ==
    \E k \in 1..Len(t.interfaces) :
        /\ declared(t.interfaces[k].name)
        /\ \E f \in 1..Len(type_by_name(t.interfaces[k].name).fields) :
              type_by_name(t.interfaces[k].name).fields[f].name = name

\* The positions of t.fields that are not fields of a listed interface.
OwnPositions(t) == {f \in 1..Len(t.fields) : ~OnInterface(t, t.fields[f].name)}

\* C4: the fields written in a complete OBJECT declaration are the fields
\* of the type that are on no listed interface, each once, in their order
\* (and the __field_names__ of the declaration are the Python names of the
\* same fields, each the name its field line assigns).
C4_OwnFieldsOnly ==
    \A i \in {s \in ObjectStarts : DeclEnd(s) # 0} :
        LET t == type_by_name(out[i].name)
            w == FieldsWritten(i)
        IN  /\ Len(w) = Cardinality(OwnPositions(t))
            /\ \A n \in 1..Len(w) :
                  \E f \in OwnPositions(t) :
                      /\ t.fields[f].name = w[n]
                      /\ Cardinality({g \in OwnPositions(t) : g < f}) = n - 1
            /\ Len(out[i].field_names) = Len(w)
            /\ \A n \in 1..Len(w) :
                  \E p \in (i + 1)..DeclLast(i) :
                      /\ out[p].ev = "field" /\ out[p].gql_name = w[n]
                      /\ out[p].py_name = out[i].field_names[n]

\* A finished run whose object lost some of its fields, not all, to an
\* interface.
C4_Witness ==
    /\ pc = "done"
    /\ \E i \in ObjectStarts :
          /\ DeclEnd(i) # 0
          /\ Len(FieldsWritten(i)) > 0
          /\ Len(FieldsWritten(i)) < Len(type_by_name(out[i].name).fields) - 1

\* ----------------------------------------------------------------- C5
RECURSIVE Depth(_)
Depth(t) == IF t.kind \in {"NON_NULL", "LIST"} THEN 1 + Depth(t.ofType) ELSE 0

\* The type n wrappers inside t.
RECURSIVE Inside(_, _)
Inside(t, n) == IF n = 0 THEN t ELSE Inside(t.ofType, n - 1)

\* C5: the reference get_type_ref returns opens one wrapper per NON_NULL or
\* LIST level of t, outermost first, whatever written_types holds, closes
\* each of them, and names the innermost type unquoted iff its name is in
\* written_types and not among the siblings, quoted otherwise.
C5_ReferenceMirrorsType ==
    pc = "returned" =>
        LET t == tref.t
            r == tref.result
            d == Depth(t)
            name == Inside(t, d).name
        IN  /\ Len(r) = 2 * d + 1
            /\ \A n \in 1..d :
                  /\ Inside(t, n - 1).kind = "NON_NULL" => r[n] = "sgqlc.types.non_null("
                  /\ Inside(t, n - 1).kind = "LIST" => r[n] = "sgqlc.types.list_of("
                  /\ r[d + 1 + n] = ")"
            /\ (name \in written_types /\ name \notin tref.siblings) => r[d + 1] = name
            /\ (name \notin written_types \/ name \in tref.siblings)
                  => r[d + 1] = "'" \o name \o "'"

\* A call on a non-null list of a written type that no sibling shadows,
\* while another written name is a sibling.
C5_Witness ==
    /\ pc = "returned"
    /\ tref.t.kind = "NON_NULL" /\ tref.t.ofType.kind = "LIST"
    /\ tref.t.ofType.ofType.kind \notin {"NON_NULL", "LIST"}
    /\ tref.result[3] = tref.t.ofType.ofType.name
    /\ tref.siblings \cap written_types # {}

\* ----------------------------------------------------------------- C6
PhaseNo(phase) ==
    CASE phase = "basic" -> 1 [] phase = "input" -> 2
      [] phase = "output" -> 3 [] phase = "post" -> 4

\* The phase and the writer of a kind, 0 for a kind of no phase.
KindPhase(kind) ==
    CASE kind \in {"SCALAR", "ENUM"} -> 1
      [] kind = "INPUT_OBJECT" -> 2
      [] kind \in {"OBJECT", "INTERFACE"} -> 3
      [] kind = "UNION" -> 4
      [] OTHER -> 0

KindWriter(kind) ==
    CASE kind = "SCALAR" -> "write_type_scalar"
      [] kind = "ENUM" -> "write_type_enum"
      [] kind = "INPUT_OBJECT" -> "write_type_input_object"
      [] kind = "OBJECT" -> "write_type_object"
      [] kind = "INTERFACE" -> "write_type_interface"
      [] kind = "UNION" -> "write_type_union"
      [] OTHER -> "none"

\* The phases that are over at pc (5: all of them and the final check).
PhasesOver ==
    CASE pc = "input" -> 1 [] pc = "output" -> 2 [] pc = "post" -> 3
      [] pc \in {"write_entry_points", "close", "done"} -> 5
      [] OTHER -> 0

Unclaimed == {i \in 1..Len(types) : KindPhase(types[i].kind) = 0}

\* C6: each call of a writer is for a type of the phase it runs in, with
\* the writer of its kind; no type is handed over twice; the calls follow
\* the phases; when a phase is over every type of its kinds was handed
\* over; the entry points are written after all four phases only; and a
\* type of no phase is handed to no writer and fails the final check.
C6_PhasesInSequence ==
    /\ \A c \in 1..Len(calls) :
          /\ declared(calls[c].name)
          /\ KindPhase(KindOf(calls[c].name)) = PhaseNo(calls[c].phase)
          /\ KindWriter(KindOf(calls[c].name)) = calls[c].fn
          /\ \A e \in 1..Len(calls) :
                /\ calls[c].name = calls[e].name => c = e
                /\ c < e => PhaseNo(calls[c].phase) <= PhaseNo(calls[e].phase)
    /\ \A i \in 1..Len(types) :
          (KindPhase(types[i].kind) # 0 /\ KindPhase(types[i].kind) <= PhasesOver)
          => \E c \in 1..Len(calls) : calls[c].name = types[i].name
    /\ (\E p \in 1..Len(out) : out[p].ev = "entry_points") => PhasesOver = 5
    /\ PhasesOver = 5 => Unclaimed = {}
    /\ (pc = "post" /\ todo = <<>>) =>
          {remaining[i].name : i \in 1..Len(remaining)}
              = {types[i].name : i \in Unclaimed}
    /\ (pc = "failed" /\ Unclaimed # {} /\ err = "AssertionError"
            /\ Len(calls) = Cardinality({i \in 1..Len(types) : KindPhase(types[i].kind) # 0}))
          => (\A p \in 1..Len(out) : out[p].ev # "entry_points")

\* A finished run with a call in each of the four phases.
C6_Witness ==
    /\ pc = "done"
    /\ \A n \in 1..4 : \E c \in 1..Len(calls) : PhaseNo(calls[c].phase) = n

\* ----------------------------------------------------------------- C7
IsObject(v) == v.j = "object"

\* The inner objects of the accepted shapes that d has.
Accepted(d) ==
    IF ~IsObject(d) THEN {}
    ELSE (IF Truthy(DictGet(d, "types", JNull)) THEN {d} ELSE {})
         \cup (IF /\ IsObject(DictGet(d, "data", JNull))
                  /\ Truthy(DictGet(DictGet(d, "data", JNull), "__schema", JNull))
               THEN {d.m["data"].m["__schema"]} ELSE {})
         \cup (IF Truthy(DictGet(d, "__schema", JNull))
               THEN {d.m["__schema"]} ELSE {})

\* C7: load_schema returns the inner object of an accepted shape of the
\* document, and ends with SystemExit, never with another exception, for a
\* document of no accepted shape.
C7_LoadSchemaContract ==
    doc # NoDoc =>
        /\ err \in {"", "SystemExit"}
        /\ err = "" <=> Accepted(doc) # {}
        /\ err = "" => schema \in Accepted(doc)

\* ----------------------------------------------------------------- C8
Skipped(t) ==
    \/ t.kind = "ENUM" /\ t.name \in builtin_enum_names
    \/ t.kind = "OBJECT" /\ t.name \in builtin_object_names

\* C8: written_types never loses a name; a step adds at most the name of
\* the declaration it completes at the end of the output; written_types is
\* at every moment the set of the completely written declarations, and
\* after a finished run the set of all types but the skipped builtins.
C8_WrittenTypesGrows ==
    /\ [][ /\ written_types \subseteq written_types'
           /\ \A name \in written_types' \ written_types :
                 /\ Len(out') > Len(out)
                 /\ \E s \in {i \in 1..Len(out') : out'[i].ev \in StartEvents} :
                       /\ s > Len(out)
                       /\ out'[s].name = name
                       /\ out'[Len(out')].ev \in {"end", "enum", "union"}
                       /\ \A q \in (s + 1)..Len(out') : out'[q].ev \notin StartEvents ]_vars
    /\ [](written_types = WrittenDecls)
    /\ [](pc = "done" =>
            written_types = {types[i].name : i \in {k \in 1..Len(types) : ~Skipped(types[k])}})

\* A finished run that declared an object with fields and skipped the
\* builtin introspection types.
C8_Witness ==
    /\ pc = "done"
    /\ "A" \in written_types
    /\ \E i \in 1..Len(types) : Skipped(types[i]) /\ types[i].kind = "ENUM"
    /\ \E i \in 1..Len(types) : Skipped(types[i]) /\ types[i].kind = "OBJECT"

\* ---------------------------------------------------------------- C10
\* The innermost token of a written type reference.
Innermost(r) == r[(Len(r) + 1) \div 2]

AllNames == CoreNames \cup UserNames

\* The positions of the field and argument lines.
RefPositions == {p \in 1..Len(out) : out[p].ev \in {"field", "arg"}}

\* The declaration a position lies in.
Owner(p) ==
    LET before == {s \in DeclStarts : s < p}
    IN  out[CHOOSE s \in before : \A k \in before : k <= s].name

\* C10: an unquoted type name in a field or argument line names a type
\* whose declaration was completely written before that line; so a type's
\* reference to itself, a reference to a UNION and a reference to a skipped
\* builtin introspection type are never unquoted.
C10_DirectReferenceIsDeclared ==
    \A p \in RefPositions :
        LET tok == Innermost(out[p].type)
        IN  tok \in AllNames =>
              /\ DeclaredBefore(tok, p)
              /\ tok # Owner(p)
              /\ declared(tok) /\ KindOf(tok) # "UNION"
              /\ ~Skipped(type_by_name(tok))

\* A finished run that wrote an unquoted reference to an interface and a
\* quoted reference of a type to itself.
C10_Witness ==
    /\ pc = "done"
    /\ \E p \in RefPositions :
          /\ Innermost(out[p].type) \in AllNames
          /\ KindOf(Innermost(out[p].type)) = "INTERFACE"
    /\ \E p \in RefPositions : Innermost(out[p].type) = "'" \o Owner(p) \o "'"

====
